---- MODULE Spec2Model ----
(***************************************************************************)
(* Heat-station data pipeline: schema unification and merge                *)
(* (merged_data_module.py), cleaning, hourly grouped resampling, centered  *)
(* smoothing with a confidence band and charting (chart_generator.py),     *)
(* and the dashboard's session and its three handlers (main_app.py).       *)
(*                                                                         *)
(* Column and keyword names of the source are Chinese; the module uses     *)
(* ASCII names for them:                                                   *)
(*   序号 seq_no, 管理单位 mgmt_unit, 管理所 mgmt_office, 换热站 station,  *)
(*   测点名称 point_name, 位置 location, 楼层 floor, 设备标识 device_id,   *)
(*   数据时间 data_time, 室温温度(℃) room_temp, 报警状态 alarm,            *)
(*   源文件 source_file, 数据类型 data_type, 环路 loop,                    *)
(*   计划热量(GJ) plan_heat, 瞬时热量(GJ/H) inst_heat, 热量(GJ) heat,      *)
(*   瞬时流量(T/H) inst_flow, 单位流量(T/万㎡) unit_flow,                  *)
(*   阀门开度(%) valve, 设定(℃) setpoint, 反馈(℃) feedback,                *)
(*   供温(℃) supply_temp, 回温(℃) return_temp, 供压(Mpa) supply_press,     *)
(*   回压(Mpa) return_press, 日期 date;                                    *)
(*   the candidate key columns 地点 place, 区域 region, location           *)
(*   location_en, area area_en, floor floor_en, 层 storey; the sentinel    *)
(*   location 默认位置 is "default_location";                              *)
(*   the file-name keywords 低环 and 二网 are the characters "D","H" and   *)
(*   "E","W" of a file name given as a sequence of characters;             *)
(*   the pages 数据合并, 供热数据分析 and 报告分析 are "merge", "analysis"   *)
(*   and "report"; the choice 全部 of a selectbox is "all".                *)
(***************************************************************************)
EXTENDS Integers, Sequences, FiniteSets, TLC

VARIABLES
    df,          \* _resample_data: the table passed in (rows sorted by datetime)
    hourly_avg,  \* _resample_data: what the call produced ("pending" before it)
    rs_pc,       \* _resample_data: "call" before, "done" after
    data_series, \* smooth_data_with_confidence: the series passed in
    window_size, \* smooth_data_with_confidence: the window_size argument
    confidence,  \* smooth_data_with_confidence: the confidence argument, in percent
    smooth_out,  \* smooth_data_with_confidence: the returned (smoothed, lower, upper)
    sm_pc,       \* smooth_data_with_confidence: "call" before, "done" after
    data_dir,             \* HeatDataMerger.data_dir: the files os.listdir returns, in its order
    low_cycle_files,      \* merge_all_data: positions in data_dir of the category-A files
    two_network_files,    \* merge_all_data: positions in data_dir of the category-B files
    low_cycle_dfs,        \* merge_all_data: the unified category-A tables so far
    two_network_dfs,      \* merge_all_data: the unified category-B tables so far
    low_cycle_combined,   \* merge_all_data: the concatenated category-A table
    two_network_combined, \* merge_all_data: the concatenated category-B table
    all_data,             \* merge_all_data: the master table
    output_file,          \* the tables written to self.output_file, in order
    merge_result,         \* what merge_all_data returned or raised ("pending" before)
    mg_pc,                \* merge_all_data: the step it is at
    original_data,        \* ChartGenerator.original_data
    config,               \* ChartGenerator.config: the date range and the selections
    df_copy,              \* clean_and_preprocess_data: the normalised, sorted table
    all_processed,        \* clean_and_preprocess_data: the local all_processed
    filtered_processed,   \* clean_and_preprocess_data: the local filtered_processed
    all_processed_data,   \* ChartGenerator.all_processed_data
    processed_data,       \* ChartGenerator.processed_data
    charts,               \* plot_all_charts: what was drawn and what was smoothed
    cl_pc,                \* clean_and_preprocess_data / plot_all_charts: the step it is at
    cl_calls,             \* the number of calls of clean_and_preprocess_data on the generator
    uploaded_files,       \* st.session_state.uploaded_files
    current_page,         \* st.session_state.current_page
    merged_data,          \* st.session_state.merged_data
    processing_status,    \* st.session_state.processing_status
    last_error,           \* st.session_state.last_error
    ds_run,               \* the widgets and the locals of the handler that runs or ran last
    ds_pc                 \* the position of the running handler, "idle" between handlers

rs_vars == <<df, hourly_avg, rs_pc>>
sm_vars == <<data_series, window_size, confidence, smooth_out, sm_pc>>
mg_vars == <<data_dir, low_cycle_files, two_network_files, low_cycle_dfs, two_network_dfs,
             low_cycle_combined, two_network_combined, all_data, output_file, merge_result, mg_pc>>
cl_vars == <<original_data, config, df_copy, all_processed, filtered_processed,
             all_processed_data, processed_data, charts, cl_pc, cl_calls>>
ds_vars == <<uploaded_files, current_page, merged_data, processing_status, last_error, ds_run, ds_pc>>
vars == <<df, hourly_avg, rs_pc, data_series, window_size, confidence, smooth_out, sm_pc,
          data_dir, low_cycle_files, two_network_files, low_cycle_dfs, two_network_dfs,
          low_cycle_combined, two_network_combined, all_data, output_file, merge_result, mg_pc,
          original_data, config, df_copy, all_processed, filtered_processed,
          all_processed_data, processed_data, charts, cl_pc, cl_calls,
          uploaded_files, current_page, merged_data, processing_status, last_error, ds_run, ds_pc>>

(***************************************************************************)
(* Bounds of the model.                                                    *)
(***************************************************************************)
MaxRows == 3
MaxHour == 2
MaxLen == 4
MaxWindow == 5
MaxFiles == 3
MaxInputRows == 2
MaxCalls == 2

(***************************************************************************)
(* Numbers.  A float cell is a record: nan marks the missing value,        *)
(* otherwise the value is the exact rational n/d in lowest terms (d > 0).  *)
(***************************************************************************)
NaN == [nan |-> TRUE, n |-> 0, d |-> 1]

RECURSIVE Gcd(_, _)
Gcd(a, b) == IF b = 0 THEN a ELSE Gcd(b, a % b)

Abs(a) == IF a < 0 THEN -a ELSE a

Frac(a, b) ==
    LET g == Gcd(Abs(a), b)
    IN  [nan |-> FALSE, n |-> a \div g, d |-> b \div g]

Num(v) == Frac(v, 1)

\* arithmetic and comparison of floats; a comparison with NaN is false
RSub(x, y) == IF x.nan \/ y.nan THEN NaN ELSE Frac(x.n * y.d - y.n * x.d, x.d * y.d)
RAdd(x, y) == IF x.nan \/ y.nan THEN NaN ELSE Frac(x.n * y.d + y.n * x.d, x.d * y.d)
RMul(x, y) == IF x.nan \/ y.nan THEN NaN ELSE Frac(x.n * y.n, x.d * y.d)
\* x / y for y > 0
RDiv(x, y) == IF x.nan \/ y.nan THEN NaN ELSE Frac(x.n * y.d, x.d * y.n)
RLe(x, y) == ~x.nan /\ ~y.nan /\ x.n * y.d <= y.n * x.d

\* the largest r in lo..hi with r * r <= x  (lo * lo <= x)
RECURSIVE ISqrtIn(_, _, _)
ISqrtIn(lo, hi, x) ==
    IF lo >= hi THEN lo
    ELSE LET mid == (lo + hi + 1) \div 2
         IN  IF mid * mid <= x THEN ISqrtIn(mid, hi, x) ELSE ISqrtIn(lo, mid - 1, x)

\* square roots are kept to Scale-ths, rounded down
Scale == 100
RSqrt(x) ==
    IF x.nan THEN NaN
    ELSE LET q == (x.n * Scale * Scale) \div x.d
         IN  Frac(ISqrtIn(0, q + 1, q), Scale)

RECURSIVE SeqSum(_)
SeqSum(s) == IF s = <<>> THEN 0 ELSE Head(s) + SeqSum(Tail(s))

SetMin(S) == CHOOSE m \in S : \A x \in S : m <= x
SetMax(S) == CHOOSE m \in S : \A x \in S : x <= m

\* the null cell of an ordinary column
None == [null |-> TRUE, file |-> 0, row |-> 0]

(***************************************************************************)
(* The state of a component that is not running in a specification.        *)
(***************************************************************************)
EmptySeries == [index |-> <<>>, values |-> <<>>]

SmIdle ==
    /\ data_series = EmptySeries
    /\ window_size = 5
    /\ confidence = 95
    /\ smooth_out = [status |-> "pending"]
    /\ sm_pc = "idle"

RsIdle ==
    /\ df = [columns |-> <<>>, index |-> <<>>, rows |-> <<>>]
    /\ hourly_avg = [status |-> "pending"]
    /\ rs_pc = "idle"

MgIdle ==
    /\ data_dir = <<>>
    /\ low_cycle_files = <<>> /\ two_network_files = <<>>
    /\ low_cycle_dfs = <<>> /\ two_network_dfs = <<>>
    /\ low_cycle_combined = None /\ two_network_combined = None /\ all_data = None
    /\ output_file = <<>>
    /\ merge_result = [status |-> "pending"]
    /\ mg_pc = "idle"

ClIdle ==
    /\ original_data = None
    /\ config = None
    /\ df_copy = None /\ all_processed = None /\ filtered_processed = None
    /\ all_processed_data = None /\ processed_data = None
    /\ charts = [status |-> "pending"]
    /\ cl_pc = "idle"
    /\ cl_calls = 0

\* the session of a dashboard nobody has opened
DsIdle ==
    /\ uploaded_files = None
    /\ current_page = "none"
    /\ merged_data = None
    /\ processing_status = "none"
    /\ last_error = None
    /\ ds_run = None
    /\ ds_pc = "off"

(***************************************************************************)
(* Instants are minutes since an epoch on the hour; NaT is the missing     *)
(* instant.                                                                *)
(***************************************************************************)
NaT == -1
Hour == 60

FloorH(t) == t - (t % Hour)
CeilH(t) == IF t % Hour = 0 THEN t ELSE FloorH(t) + Hour

\* pd.date_range(start, end, freq='h') for instants on the hour, start <= end
DateRange(start, end) ==
    [i \in 1..((end - start) \div Hour + 1) |-> start + (i - 1) * Hour]

(***************************************************************************)
(* Tables.  A table is [columns, index, rows]: columns is the sequence of  *)
(* column names, index the sequence of row labels, rows the sequence of    *)
(* rows, each a function from the column names to cells.                   *)
(***************************************************************************)
Range(s) == {s[i] : i \in DOMAIN s}

HasColumn(t, col) == col \in Range(t.columns)

\* position of x in the sequence s (x occurs in s)
IndexOf(s, x) == CHOOSE i \in DOMAIN s : s[i] = x /\ \A j \in 1..(i - 1) : s[j] # x

RECURSIVE Flatten(_)
Flatten(ss) == IF ss = <<>> THEN <<>> ELSE Head(ss) \o Flatten(Tail(ss))

(***************************************************************************)
(* ChartGenerator._resample_data                                           *)
(***************************************************************************)
value_columns == <<"room_temp", "inst_flow", "supply_temp", "return_temp">>

\* the key strings of the model, each list in the order sorted() gives
Locations == <<"L1", "L2", "None", "default_location">>
Floors == <<"1", "2", "None">>

ValidTimes(rows) == {rows[i]["datetime"] : i \in DOMAIN rows} \ {NaT}

\* (mutant) a mean that counts a missing value as zero
BinMean_CountsMissing(cells) ==
    IF cells = <<>> THEN NaN
    ELSE Frac(SeqSum([i \in DOMAIN cells |-> cells[i].n]), Len(cells))

\* Series.mean() of one hourly bin: the mean of the non-missing values, NaN
\* when the bin holds none
BinMean(cells) ==
    LET present == SelectSeq(cells, LAMBDA c : ~c.nan)
    IN  IF present = <<>> THEN NaN
        ELSE Frac(SeqSum([i \in DOMAIN present |-> present[i].n]), Len(present))

\* the cells of column col of the rows whose instant falls in the bin [b, b + 1h)
BinCells(rows, col, b) ==
    LET inBin == SelectSeq(rows, LAMBDA r : r["datetime"] # NaT /\ FloorH(r["datetime"]) = b)
    IN  [i \in DOMAIN inBin |-> inBin[i][col]]

\* group.resample('1h', on='datetime')[available_columns].mean(): one row per
\* hour from the partition's first to its last valid hour, indexed by the hour.
\* (Rows with a missing instant fall in no bin.)
ResampleMean(rows, available_columns) ==
    LET times == ValidTimes(rows)
        bins == DateRange(FloorH(SetMin(times)), FloorH(SetMax(times)))
    IN  [index |-> bins,
         rows |-> [i \in DOMAIN bins |->
                     [c \in Range(available_columns) |-> BinMean(BinCells(rows, c, bins[i]))]]]

\* frame.reindex(full_time_index): the row labelled h where the frame has one,
\* a row of missing values elsewhere
Reindex(frame, available_columns, full_time_index) ==
    [index |-> full_time_index,
     rows |-> [i \in DOMAIN full_time_index |->
                 IF full_time_index[i] \in Range(frame.index)
                 THEN frame.rows[IndexOf(frame.index, full_time_index[i])]
                 ELSE [c \in Range(available_columns) |-> NaN]]]

\* df.groupby(['位置', '楼层']): the keys that occur, in sorted order
GroupKeys(rows) ==
    LET all == [i \in 1..(Len(Locations) * Len(Floors)) |->
                  <<Locations[((i - 1) \div Len(Floors)) + 1], Floors[((i - 1) % Len(Floors)) + 1]>>]
    IN  SelectSeq(all, LAMBDA k : \E i \in DOMAIN rows :
                                     rows[i]["location"] = k[1] /\ rows[i]["floor"] = k[2])

GroupRows(rows, k) ==
    SelectSeq(rows, LAMBDA r : r["location"] = k[1] /\ r["floor"] = k[2])

\* one iteration of the loop over the groups (lines 226-240)
GroupHourly(rows, k, available_columns, full_time_index) ==
    LET group == GroupRows(rows, k)
        group_hourly == Reindex(ResampleMean(group, available_columns),
                                available_columns, full_time_index)
    IN  [index |-> group_hourly.index,
         rows |-> [i \in DOMAIN group_hourly.rows |->
                     [c \in Range(available_columns) \cup {"location", "floor"} |->
                        IF c = "location" THEN k[1]
                        ELSE IF c = "floor" THEN k[2]
                        ELSE group_hourly.rows[i][c]]]]

Raised(what) == [status |-> "raised", error |-> what]

ResampleData(d) ==
    LET available_columns == SelectSeq(value_columns, LAMBDA c : HasColumn(d, c))
        has_location_floor == HasColumn(d, "location") /\ HasColumn(d, "floor")
        times == ValidTimes(d.rows)
        full_time_index == DateRange(FloorH(SetMin(times)), CeilH(SetMax(times)))
        keys == GroupKeys(d.rows)
        grouped_results == [g \in DOMAIN keys |->
                              GroupHourly(d.rows, keys[g], available_columns, full_time_index)]
    IN  IF available_columns = <<>>
        THEN [status |-> "ok", columns |-> d.columns, index |-> d.index, rows |-> d.rows]
        ELSE IF times = {}
        THEN Raised("ValueError")      \* date_range(start=NaT, end=NaT)
        ELSE IF has_location_floor
        THEN IF \E g \in DOMAIN keys : ValidTimes(GroupRows(d.rows, keys[g])) = {}
             THEN Raised("ValueError") \* resampling a partition without any valid instant
             ELSE [status |-> "ok",
                   columns |-> available_columns \o <<"location", "floor">>,
                   index |-> Flatten([g \in DOMAIN keys |-> grouped_results[g].index]),
                   rows |-> Flatten([g \in DOMAIN keys |-> grouped_results[g].rows])]
        ELSE LET hourly == Reindex(ResampleMean(d.rows, available_columns),
                                   available_columns, full_time_index)
             IN  [status |-> "ok", columns |-> available_columns,
                  index |-> hourly.index, rows |-> hourly.rows]

(***************************************************************************)
(* The tables _resample_data is called with.  clean_and_preprocess_data    *)
(* passes a table that has the datetime column and the string columns      *)
(* location and floor, sorted by datetime with the missing instants last.  *)
(***************************************************************************)
BaseColumns == <<"datetime", "location", "floor">>

InputColumns ==
    {BaseColumns, BaseColumns \o <<"room_temp">>, BaseColumns \o <<"room_temp", "inst_flow">>}

InputKeys == {<<"L1", "1">>, <<"L1", "2">>, <<"L2", "1">>}

InputTimes == {NaT} \cup {h * Hour + m : h \in 0..MaxHour, m \in {0, 30}}

\* the cells a column holds: with one measurement column its values vary
\* more, with two each is present or missing
InputCells(cols, c) ==
    IF ~(c \in Range(cols)) THEN {NaN}
    ELSE IF c = "room_temp"
    THEN (IF Len(cols) = 4 THEN {NaN, Num(10), Num(20), Num(30)} ELSE {NaN, Num(10)})
    ELSE {NaN, Num(20)}

InputRows(cols) ==
    {[c \in Range(cols) |->
        IF c = "datetime" THEN t
        ELSE IF c = "location" THEN k[1]
        ELSE IF c = "floor" THEN k[2]
        ELSE IF c = "room_temp" THEN a
        ELSE b] :
     k \in InputKeys, t \in InputTimes,
     a \in InputCells(cols, "room_temp"), b \in InputCells(cols, "inst_flow")}

\* df.sort_values('datetime'): ascending, missing instants last
SortedByTime(rows) ==
    \A i \in DOMAIN rows : \A j \in DOMAIN rows :
        i < j => \/ rows[j]["datetime"] = NaT
                 \/ /\ rows[i]["datetime"] # NaT
                    /\ rows[i]["datetime"] <= rows[j]["datetime"]

RsInit ==
    /\ \E cols \in InputColumns : \E n \in 0..MaxRows : \E rows \in [1..n -> InputRows(cols)] :
          /\ SortedByTime(rows)
          /\ df = [columns |-> cols, index |-> [i \in 1..n |-> i], rows |-> rows]
    /\ hourly_avg = [status |-> "pending"]
    /\ rs_pc = "call"
    /\ SmIdle /\ MgIdle /\ ClIdle /\ DsIdle

\* one call of _resample_data(df)
Resample ==
    /\ rs_pc = "call"
    /\ hourly_avg' = ResampleData(df)
    /\ rs_pc' = "done"
    /\ UNCHANGED df
    /\ UNCHANGED sm_vars
    /\ UNCHANGED mg_vars
    /\ UNCHANGED cl_vars
    /\ UNCHANGED ds_vars

RsNext == Resample

SpecResample == RsInit /\ [][RsNext]_vars

(***************************************************************************)
(* Claims about _resample_data, checked under SpecResample.                *)
(***************************************************************************)
RsMeasured == \E c \in Range(value_columns) : HasColumn(df, c)
RsInstants == {df.rows[i]["datetime"] : i \in DOMAIN df.rows} \ {NaT}
RsKeys == {<<df.rows[i]["location"], df.rows[i]["floor"]>> : i \in DOMAIN df.rows}

\* the hours from floor-to-hour(min instant) to ceil-to-hour(max instant) of the whole table
RsTimeline ==
    {h \in 0..(SetMax(RsInstants) + Hour) :
        /\ h % Hour = 0
        /\ h + Hour > SetMin(RsInstants)
        /\ h < SetMax(RsInstants) + Hour}

RsOutRowsOf(k) ==
    {i \in DOMAIN hourly_avg.rows :
        hourly_avg.rows[i]["location"] = k[1] /\ hourly_avg.rows[i]["floor"] = k[2]}

\* every key of the input has exactly one output row per timeline instant, and
\* no other key has rows
RsPadded ==
    /\ hourly_avg.status = "ok"
    /\ \A k \in RsKeys :
          /\ Cardinality(RsOutRowsOf(k)) = Cardinality(RsTimeline)
          /\ {hourly_avg.index[i] : i \in RsOutRowsOf(k)} = RsTimeline
          /\ Cardinality(RsTimeline) =
                (CeilH(SetMax(RsInstants)) - FloorH(SetMin(RsInstants))) \div Hour + 1
    /\ \A i \in DOMAIN hourly_avg.rows :
          <<hourly_avg.rows[i]["location"], hourly_avg.rows[i]["floor"]>> \in RsKeys

\* C1: for every table with a measurement column and a row with a valid
\* instant, the output of _resample_data holds for every (location, floor)
\* pair of the input exactly one row per instant of the global hourly
\* timeline floor(min)..ceil(max), and no rows for other pairs.
C1_PaddedForEveryKey ==
    (rs_pc = "done" /\ RsMeasured /\ RsInstants # {}) => RsPadded

\* the same for the tables in which every pair has a row with a valid instant
RsEveryKeyTimed ==
    \A k \in RsKeys : \E i \in DOMAIN df.rows :
        /\ <<df.rows[i]["location"], df.rows[i]["floor"]>> = k
        /\ df.rows[i]["datetime"] # NaT

C1_PaddedWhenEveryKeyTimed ==
    (rs_pc = "done" /\ RsMeasured /\ RsInstants # {} /\ RsEveryKeyTimed) => RsPadded

\* the raw cells of column c that key k has in the hour [h, h + 1h) and that
\* are not missing
RsRawIn(k, h, c) ==
    {i \in DOMAIN df.rows :
        /\ df.rows[i]["location"] = k[1] /\ df.rows[i]["floor"] = k[2]
        /\ df.rows[i]["datetime"] # NaT
        /\ h <= df.rows[i]["datetime"] /\ df.rows[i]["datetime"] < h + Hour
        /\ ~df.rows[i][c].nan}

RECURSIVE RsSumOver(_, _)
RsSumOver(S, c) ==
    IF S = {} THEN 0
    ELSE LET i == CHOOSE x \in S : TRUE
         IN  df.rows[i][c].n + RsSumOver(S \ {i}, c)

\* C2: every resampled cell is the arithmetic mean of the key's non-missing
\* raw values in its hour, and is missing exactly when there is none.
C2_HourlyMean ==
    (rs_pc = "done" /\ RsMeasured /\ hourly_avg.status = "ok") =>
        \A i \in DOMAIN hourly_avg.rows :
            \A c \in Range(value_columns) \cap Range(df.columns) :
                LET k == <<hourly_avg.rows[i]["location"], hourly_avg.rows[i]["floor"]>>
                    raw == RsRawIn(k, hourly_avg.index[i], c)
                    cell == hourly_avg.rows[i][c]
                IN  /\ cell.nan <=> raw = {}
                    /\ ~cell.nan => cell.n * Cardinality(raw) = RsSumOver(raw, c) * cell.d

\* 10, 20 and 30 of one key in one hour give 20, and the key has a missing
\* cell in an hour of the timeline in which it has no data
C2_Witness ==
    /\ rs_pc = "done" /\ hourly_avg.status = "ok" /\ RsMeasured
    /\ \E i \in DOMAIN hourly_avg.rows :
          /\ Cardinality(RsRawIn(<<hourly_avg.rows[i]["location"], hourly_avg.rows[i]["floor"]>>,
                                 hourly_avg.index[i], "room_temp")) = 3
          /\ hourly_avg.rows[i]["room_temp"] = Num(20)
          /\ {df.rows[j]["room_temp"] : j \in DOMAIN df.rows} = {Num(10), Num(20), Num(30)}
    /\ \E i \in DOMAIN hourly_avg.rows : \E j \in DOMAIN hourly_avg.rows :
          /\ hourly_avg.rows[i]["room_temp"].nan
          /\ ~hourly_avg.rows[j]["room_temp"].nan
          /\ hourly_avg.rows[i]["location"] = hourly_avg.rows[j]["location"]
          /\ hourly_avg.rows[i]["floor"] = hourly_avg.rows[j]["floor"]

(***************************************************************************)
(* smooth_data_with_confidence                                             *)
(* A series is [index, values]: the labels and the cells, position by      *)
(* position.                                                               *)
(***************************************************************************)
\* (mutant) a window reaching window // 2 positions to either side
WindowOf_Symmetric(i, n, window) ==
    {j \in 1..n : i - (window \div 2) <= j /\ j <= i + (window \div 2)}

\* the positions of the centered fixed window of position i in a series of
\* length n: Series.rolling(window, center=True)
WindowOf(i, n, window) ==
    LET offset == (window - 1) \div 2
        end == i + offset
        start == end - window + 1
    IN  {j \in 1..n : start <= j /\ j <= end}

Observed(s, W) == {j \in W : ~s.values[j].nan}

RECURSIVE SumOver(_, _)
SumOver(s, W) ==
    IF W = {} THEN 0
    ELSE LET j == CHOOSE x \in W : TRUE
         IN  s.values[j].n + SumOver(s, W \ {j})

RECURSIVE SumSqOver(_, _)
SumSqOver(s, W) ==
    IF W = {} THEN 0
    ELSE LET j == CHOOSE x \in W : TRUE
         IN  s.values[j].n * s.values[j].n + SumSqOver(s, W \ {j})

\* (mutant) a rolling mean over the series with its missing values dropped
RollingMean_OnValid(s, window, min_periods) ==
    LET keep == SelectSeq([i \in DOMAIN s.values |-> i], LAMBDA i : ~s.values[i].nan)
        v == [index |-> [k \in DOMAIN keep |-> s.index[keep[k]]],
              values |-> [k \in DOMAIN keep |-> s.values[keep[k]]]]
    IN  [index |-> v.index,
         values |-> [i \in DOMAIN v.values |->
            LET obs == WindowOf(i, Len(v.values), window)
            IN  IF Cardinality(obs) >= min_periods
                THEN Frac(SumOver(v, obs), Cardinality(obs))
                ELSE NaN]]

\* rolling(...).mean(): the mean of the window's observations when there are
\* at least min_periods of them
RollingMean(s, window, min_periods) ==
    [index |-> s.index,
     values |-> [i \in DOMAIN s.values |->
        LET obs == Observed(s, WindowOf(i, Len(s.values), window))
            nobs == Cardinality(obs)
        IN  IF nobs >= min_periods /\ nobs > 0
            THEN Frac(SumOver(s, obs), nobs)
            ELSE NaN]]

\* rolling(...).std(): the sample standard deviation (ddof = 1) of the
\* window's observations when there are at least min_periods and more than one
RollingStd(s, window, min_periods) ==
    [index |-> s.index,
     values |-> [i \in DOMAIN s.values |->
        LET obs == Observed(s, WindowOf(i, Len(s.values), window))
            nobs == Cardinality(obs)
        IN  IF nobs >= min_periods /\ nobs > 1
            THEN RSqrt(Frac(nobs * SumSqOver(s, obs) - SumOver(s, obs) * SumOver(s, obs),
                            nobs * (nobs - 1)))
            ELSE NaN]]

\* (mutant) the quantile of the lower tail, stats.norm.ppf((1 - confidence) / 2)
ZScore_LowerTail(conf) ==
    IF conf = 50 THEN Frac(-67, 100)
    ELSE IF conf = 90 THEN Frac(-164, 100)
    ELSE IF conf = 95 THEN Frac(-196, 100)
    ELSE Frac(-258, 100)

\* stats.norm.ppf(1 - (1 - confidence) / 2) for the confidence levels of the
\* model (in percent), in hundredths
ZScore(conf) ==
    IF conf = 50 THEN Frac(67, 100)
    ELSE IF conf = 90 THEN Frac(164, 100)
    ELSE IF conf = 95 THEN Frac(196, 100)
    ELSE Frac(258, 100)

\* element-wise arithmetic of two series with the same index
SeriesSub(a, b) ==
    [index |-> a.index, values |-> [i \in DOMAIN a.values |-> RSub(a.values[i], b.values[i])]]

SeriesAdd(a, b) ==
    [index |-> a.index, values |-> [i \in DOMAIN a.values |-> RAdd(a.values[i], b.values[i])]]

\* a series divided by, or multiplied with, a scalar
SeriesDiv(a, k) ==
    [index |-> a.index, values |-> [i \in DOMAIN a.values |-> RDiv(a.values[i], k)]]

SeriesMul(a, k) ==
    [index |-> a.index, values |-> [i \in DOMAIN a.values |-> RMul(a.values[i], k)]]

MinPeriods(window) == IF window \div 2 > 1 THEN window \div 2 ELSE 1

SmoothDataWithConfidence(s, window, conf) ==
    LET min_periods == MinPeriods(window)
        smoothed == RollingMean(s, window, min_periods)
        std == RollingStd(s, window, min_periods)
        standard_error == SeriesDiv(std, RSqrt(Num(window)))
        z_score == ZScore(conf)
        margin_error == SeriesMul(standard_error, z_score)
    IN  [smoothed |-> smoothed,
         lower |-> SeriesSub(smoothed, margin_error),
         upper |-> SeriesAdd(smoothed, margin_error)]

(***************************************************************************)
(* The calls of smooth_data_with_confidence: any series of integer values  *)
(* and missing values, labelled 0, 1, 2, ... or by instants, any window    *)
(* size from 1, a confidence level in percent.                             *)
(***************************************************************************)
SeriesCells == {NaN, Num(1), Num(2), Num(4)}
ConfidenceLevels == {50, 90, 95, 99}

SeriesIndexes(n) == {[i \in 1..n |-> i - 1], [i \in 1..n |-> (2 * i - 1) * Hour]}

SmInit ==
    /\ \E n \in 0..MaxLen : \E idx \in SeriesIndexes(n) : \E vals \in [1..n -> SeriesCells] :
          data_series = [index |-> idx, values |-> vals]
    /\ window_size \in 1..MaxWindow
    /\ confidence \in ConfidenceLevels
    /\ smooth_out = [status |-> "pending"]
    /\ sm_pc = "call"
    /\ RsIdle /\ MgIdle /\ ClIdle /\ DsIdle

\* one call of smooth_data_with_confidence(data_series, window_size, confidence)
Smooth ==
    /\ sm_pc = "call"
    /\ smooth_out' = [status |-> "ok"] @@ SmoothDataWithConfidence(data_series, window_size, confidence)
    /\ sm_pc' = "done"
    /\ UNCHANGED <<data_series, window_size, confidence>>
    /\ UNCHANGED rs_vars
    /\ UNCHANGED mg_vars
    /\ UNCHANGED cl_vars
    /\ UNCHANGED ds_vars

SmNext == Smooth

SpecSmooth == SmInit /\ [][SmNext]_vars

(***************************************************************************)
(* Claims about smooth_data_with_confidence, checked under SpecSmooth.     *)
(***************************************************************************)
SmDone == sm_pc = "done"

\* C5: the three returned series each have exactly the length and the index of
\* the input series, with or without missing values, for any window size >= 1.
C5_SameLengthAndIndex ==
    SmDone =>
        \A part \in {"smoothed", "lower", "upper"} :
            /\ Len(smooth_out[part].values) = Len(data_series.values)
            /\ Len(smooth_out[part].index) = Len(data_series.index)
            /\ smooth_out[part].index = data_series.index

\* a series with a missing value in it and labels other than 0, 1, 2, ..., smoothed
C5_Witness ==
    /\ SmDone
    /\ Len(data_series.values) = MaxLen
    /\ \E i \in DOMAIN data_series.values : data_series.values[i].nan
    /\ \E i \in DOMAIN data_series.values : ~data_series.values[i].nan
    /\ data_series.index[1] = Hour
    /\ Len(smooth_out["smoothed"].values) = MaxLen

SmOrderedAt(i) ==
    /\ RLe(smooth_out["lower"].values[i], smooth_out["smoothed"].values[i])
    /\ RLe(smooth_out["smoothed"].values[i], smooth_out["upper"].values[i])

\* the number of non-missing input values in the window of position i: the
\* positions i - window_size \div 2 .. i + (window_size - 1) \div 2 of the series
SmObservedAt(i) ==
    Cardinality({j \in DOMAIN data_series.values :
                    /\ i - (window_size \div 2) <= j
                    /\ j <= i + ((window_size - 1) \div 2)
                    /\ ~data_series.values[j].nan})

\* C6 as stated: at every position where the smoothed value is non-missing,
\* lower <= smoothed <= upper.
C6_OrderedWhereSmoothed ==
    SmDone =>
        \A i \in DOMAIN data_series.values :
            ~smooth_out["smoothed"].values[i].nan => SmOrderedAt(i)

\* C6 as amended: at every position where the smoothed value is non-missing,
\* lower <= smoothed <= upper if window_size >= 4 or the window holds at
\* least two non-missing values; otherwise (one non-missing value in the
\* window, window_size <= 3) both bounds are missing.
C6_OrderedWhereTwoObserved ==
    SmDone =>
        \A i \in DOMAIN data_series.values :
            ~smooth_out["smoothed"].values[i].nan =>
                IF window_size >= 4 \/ SmObservedAt(i) >= 2
                THEN SmOrderedAt(i)
                ELSE /\ smooth_out["lower"].values[i].nan
                     /\ smooth_out["upper"].values[i].nan

\* a position with a strictly positive margin, one with margin zero, and one
\* whose window holds a single value (bounds missing)
C6_Witness ==
    /\ SmDone
    /\ \E i \in DOMAIN data_series.values :
          /\ SmOrderedAt(i)
          /\ smooth_out["lower"].values[i] # smooth_out["smoothed"].values[i]
    /\ \E i \in DOMAIN data_series.values :
          /\ ~smooth_out["smoothed"].values[i].nan
          /\ smooth_out["lower"].values[i].nan
          /\ SmObservedAt(i) = 1

(***************************************************************************)
(* HeatDataMerger (merged_data_module.py)                                  *)
(*                                                                         *)
(* A file is [name, columns, rows]: the name is a sequence of characters,  *)
(* columns the header of its sheet, rows its data rows (functions from     *)
(* the header's columns to cells).  A cell of an ordinary column is        *)
(* None or the value the file holds at (file, row); a cell of data_time    *)
(* in a file is [kind, t]: a date-time ("datetime", minutes since          *)
(* 2023-11-20 00:00), a clock time ("clock", minutes since midnight), or   *)
(* "null", "blank", "digits" (text without ':'), "text" (unparseable).     *)
(* In a unified table data_time is an instant or NaT, source_file a file   *)
(* name, data_type the category tag, date a date string or NoDate.         *)
(***************************************************************************)
standard_columns ==
    <<"seq_no", "mgmt_unit", "mgmt_office", "station", "point_name", "location", "floor",
      "device_id", "data_time", "room_temp", "alarm", "source_file", "data_type", "loop",
      "plan_heat", "inst_heat", "heat", "inst_flow", "unit_flow", "valve", "setpoint",
      "feedback", "supply_temp", "return_temp", "supply_press", "return_press", "date">>

low_cycle_required ==
    <<"seq_no", "mgmt_unit", "mgmt_office", "station", "point_name", "location", "floor",
      "device_id", "data_time", "room_temp", "alarm">>

two_network_required ==
    <<"loop", "plan_heat", "inst_heat", "heat", "inst_flow", "unit_flow", "valve",
      "setpoint", "feedback", "supply_temp", "return_temp", "supply_press", "return_press",
      "data_time">>

NoDate == <<>>
DayMinutes == 1440

\* the calendar dates of the model's days 0, 1, 2
DayNames == <<<<"2", "0", "2", "3", "-", "1", "1", "-", "2", "0">>, <<"2", "0", "2", "3", "-", "1", "1", "-", "2", "1">>, <<"2", "0", "2", "3", "-", "1", "1", "-", "2", "2">>>>

Digits == {"0", "1", "2", "3", "4", "5", "6", "7", "8", "9"}

\* 'sub in s' for sequences of characters
Contains(s, sub) ==
    \E i \in 1..(Len(s) - Len(sub) + 1) : SubSeq(s, i, i + Len(sub) - 1) = sub

EndsWith(s, suffix) ==
    Len(s) >= Len(suffix) /\ SubSeq(s, Len(s) - Len(suffix) + 1, Len(s)) = suffix

StartsWith(s, prefix) ==
    Len(s) >= Len(prefix) /\ SubSeq(s, 1, Len(prefix)) = prefix

\* s[i..i+9] matches \d{4}-\d{2}-\d{2}
DateAt(s, i) ==
    /\ i + 9 <= Len(s)
    /\ \A j \in {0, 1, 2, 3, 5, 6, 8, 9} : s[i + j] \in Digits
    /\ s[i + 4] = "-" /\ s[i + 7] = "-"

\* (mutant) the rightmost match instead of the leftmost
DateSearch_Last(s) ==
    LET hits == {i \in 1..Len(s) : DateAt(s, i)}
    IN  IF hits = {} THEN <<>> ELSE SubSeq(s, SetMax(hits), SetMax(hits) + 9)

\* re.search(r'(\d{4}-\d{2}-\d{2})', filename): the leftmost match, or <<>>
DateSearch(s) ==
    LET hits == {i \in 1..Len(s) : DateAt(s, i)}
    IN  IF hits = {} THEN <<>> ELSE SubSeq(s, SetMin(hits), SetMin(hits) + 9)

\* pd.to_datetime(cell, errors='coerce') of a category-A time cell
ToDatetimeCoerce(cell) == IF cell.kind = "datetime" THEN cell.t ELSE NaT

\* Series.dt.strftime('%Y-%m-%d')
Strftime(t) == IF t = NaT THEN NoDate ELSE DayNames[(t \div DayMinutes) + 1]

\* (mutant) without the strip() test a blank clock time parses as the date alone
CombineDatetime_BlankIsMidnight(file_date, cell) ==
    IF cell.kind = "null" THEN NaT
    ELSE IF cell.kind = "blank" /\ file_date \in Range(DayNames)
    THEN (IndexOf(DayNames, file_date) - 1) * DayMinutes
    ELSE IF cell.kind = "digits" THEN NaT
    ELSE IF cell.kind = "clock" /\ file_date \in Range(DayNames)
    THEN (IndexOf(DayNames, file_date) - 1) * DayMinutes + cell.t
    ELSE NaT

\* combine_datetime(row) of process_two_network_data
CombineDatetime(file_date, cell) ==
    IF cell.kind \in {"null", "blank"} THEN NaT
    ELSE IF cell.kind = "digits" THEN NaT              \* no ':' in time_str
    ELSE IF cell.kind = "clock" /\ file_date \in Range(DayNames)
    THEN (IndexOf(DayNames, file_date) - 1) * DayMinutes + cell.t
    ELSE NaT                                           \* errors='coerce'

(***************************************************************************)
(* Table operations.                                                       *)
(***************************************************************************)
\* df[col] = values: the column is replaced where it is, or appended
SetColumn(t, col, values) ==
    LET cols == IF HasColumn(t, col) THEN t.columns ELSE Append(t.columns, col)
    IN  [columns |-> cols,
         index |-> t.index,
         rows |-> [i \in DOMAIN t.rows |->
                     [c \in Range(cols) |-> IF c = col THEN values[i] ELSE t.rows[i][c]]]]

\* the same value in every row of t / a value computed from each row's cell
Broadcast(t, v) == [i \in DOMAIN t.rows |-> v]

\* for col in missing_columns: df[col] = None
RECURSIVE AddNoneColumns(_, _)
AddNoneColumns(t, cols) ==
    IF cols = <<>> THEN t
    ELSE AddNoneColumns(SetColumn(t, Head(cols), Broadcast(t, None)), Tail(cols))

\* (mutant) no reordering to the standard columns
SelectColumns_KeepsAll(t, cols) == t

\* df[columns]
SelectColumns(t, cols) ==
    [columns |-> cols,
     index |-> t.index,
     rows |-> [i \in DOMAIN t.rows |-> [c \in Range(cols) |-> t.rows[i][c]]]]

\* (mutant) pd.concat without ignore_index: the tables' own labels are kept
Concat_KeepsIndex(tables) ==
    [columns |-> tables[1].columns,
     index |-> Flatten([k \in DOMAIN tables |-> tables[k].index]),
     rows |-> Flatten([k \in DOMAIN tables |-> tables[k].rows])]

\* pd.concat(tables, ignore_index=True) of tables with the same columns
Concat(tables) ==
    LET rows == Flatten([k \in DOMAIN tables |-> tables[k].rows])
    IN  [columns |-> tables[1].columns,
         index |-> [i \in DOMAIN rows |-> i - 1],
         rows |-> rows]

\* pd.read_excel(file_path)
ReadExcel(file) ==
    [columns |-> file.columns, index |-> [i \in DOMAIN file.rows |-> i - 1], rows |-> file.rows]

\* (mutant) the last missing required column instead of the first
FirstMissing_Last(t, required) ==
    LET absent == SelectSeq(required, LAMBDA c : ~HasColumn(t, c))
    IN  IF absent = <<>> THEN "" ELSE absent[Len(absent)]

\* for col in required_columns: if col not in df.columns: raise ...
\* the column the loop stops at, "" when it finds none missing
FirstMissing(t, required) ==
    LET absent == SelectSeq(required, LAMBDA c : ~HasColumn(t, c))
    IN  IF absent = <<>> THEN "" ELSE Head(absent)

RaiseError(what, col, name) == [status |-> "raised", error |-> what, column |-> col, file |-> name]

Unified(t) == [status |-> "ok", table |-> t]

(***************************************************************************)
(* HeatDataMerger.process_low_cycle_data                                   *)
(***************************************************************************)
ProcessLowCycleData(file) ==
    LET df0 == ReadExcel(file)
        absent == FirstMissing(df0, low_cycle_required)
        missing_columns == SelectSeq(standard_columns, LAMBDA c : ~HasColumn(df0, c))
        df1 == AddNoneColumns(df0, missing_columns)
        df2 == SetColumn(df1, "source_file", Broadcast(df1, file.name))
        df3 == SetColumn(df2, "data_type", Broadcast(df2, "low_cycle"))
        df4 == SetColumn(df3, "data_time", [i \in DOMAIN df3.rows |-> ToDatetimeCoerce(df3.rows[i]["data_time"])])
        df5 == SetColumn(df4, "date", [i \in DOMAIN df4.rows |-> Strftime(df4.rows[i]["data_time"])])
    IN  IF absent # ""
        THEN RaiseError("low_cycle_missing_column", absent, file.name)
        ELSE Unified(SelectColumns(df5, standard_columns))

(***************************************************************************)
(* HeatDataMerger.process_two_network_data                                 *)
(***************************************************************************)
ProcessTwoNetworkData(file) ==
    LET df0 == ReadExcel(file)
        absent == FirstMissing(df0, two_network_required)
        missing_columns == SelectSeq(standard_columns, LAMBDA c : ~HasColumn(df0, c))
        df1 == AddNoneColumns(df0, missing_columns)
        df2 == SetColumn(df1, "source_file", Broadcast(df1, file.name))
        df3 == SetColumn(df2, "data_type", Broadcast(df2, "two_network"))
        file_date == DateSearch(file.name)
        df4 == SetColumn(df3, "date", Broadcast(df3, file_date))
        df5 == SetColumn(df4, "data_time", [i \in DOMAIN df4.rows |-> CombineDatetime(file_date, df4.rows[i]["data_time"])])
    IN  IF absent # ""
        THEN RaiseError("two_network_missing_column", absent, file.name)
        ELSE IF file_date = <<>>
        THEN RaiseError("two_network_no_date", "", file.name)
        ELSE Unified(SelectColumns(df5, standard_columns))

(***************************************************************************)
(* HeatDataMerger.find_data_files: the positions in the listing of the     *)
(* category-A and of the category-B files                                  *)
(***************************************************************************)
IsExcel(name) ==
    /\ EndsWith(name, <<".", "x", "l", "s", "x">>) \/ EndsWith(name, <<".", "x", "l", "s">>)
    /\ ~StartsWith(name, <<"~", "$">>)

FindLowCycle(dir) ==
    SelectSeq([i \in DOMAIN dir |-> i],
              LAMBDA i : IsExcel(dir[i].name) /\ Contains(dir[i].name, <<"D", "H">>))

\* (mutant) the second keyword is tested with 'if', not 'elif'
FindTwoNetwork_AlsoLow(dir) ==
    SelectSeq([i \in DOMAIN dir |-> i],
              LAMBDA i : IsExcel(dir[i].name) /\ Contains(dir[i].name, <<"E", "W">>))

FindTwoNetwork(dir) ==
    SelectSeq([i \in DOMAIN dir |-> i],
              LAMBDA i : /\ IsExcel(dir[i].name)
                         /\ ~Contains(dir[i].name, <<"D", "H">>)
                         /\ Contains(dir[i].name, <<"E", "W">>))

(***************************************************************************)
(* The spreadsheets of the model.                                          *)
(***************************************************************************)
Held(f, i) == [null |-> FALSE, file |-> f, row |-> i]

\* the rows of file f with header cols; times gives data_time row by row
SheetRows(f, cols, times) ==
    [i \in DOMAIN times |->
        [c \in Range(cols) |-> IF c = "data_time" THEN times[i] ELSE Held(f, i)]]

Sheet(f, name, cols, times) == [name |-> name, columns |-> cols, rows |-> SheetRows(f, cols, times)]

Without(cols, drop) == SelectSeq(cols, LAMBDA c : ~(c \in drop))

At(t) == [kind |-> "datetime", t |-> t]
Clock(t) == [kind |-> "clock", t |-> t]
Cell(kind) == [kind |-> kind, t |-> 0]

FileCatalog ==
    << Sheet(1, <<"D", "H", ".", "x", "l", "s", "x">>, <<"remark">> \o low_cycle_required,
             <<At(8 * Hour), Cell("text")>>),
       Sheet(2, <<"D", "H", "2", ".", "x", "l", "s">>, low_cycle_required \o <<"loop", "date", "data_type">>,
             <<At(DayMinutes + 9 * Hour + 30)>>),
       Sheet(3, <<"D", "H", "3", ".", "x", "l", "s", "x">>, Without(low_cycle_required, {"floor", "alarm"}),
             <<At(10 * Hour)>>),
       Sheet(4, <<"E", "W", "2", "0", "2", "3", "-", "1", "1", "-", "2", "0", ".", "x", "l", "s", "x">>, two_network_required \o <<"remark", "source_file">>,
             <<Clock(8 * Hour), Cell("blank"), Clock(23 * Hour + 50)>>),
       Sheet(5, <<"E", "W", "2", "0", "2", "3", "-", "1", "-", "5", "_", "2", "0", "2", "3", "-", "1", "1", "-", "2", "1", "t", "o", "2", "0", "2", "3", "-", "1", "1", "-", "2", "0", ".", "x", "l", "s", "x">>, two_network_required,
             <<Clock(9 * Hour), Cell("digits"), Cell("null"), Cell("text")>>),
       Sheet(6, <<"E", "W", ".", "x", "l", "s", "x">>, two_network_required,
             <<Clock(8 * Hour)>>),
       Sheet(7, <<"E", "W", "2", "0", "2", "3", "-", "1", "1", "-", "2", "2", ".", "x", "l", "s", "x">>, Without(two_network_required, {"inst_flow", "data_time"}),
             <<Cell("null")>>),
       Sheet(8, <<"D", "H", "E", "W", "2", "0", "2", "3", "-", "1", "1", "-", "2", "0", ".", "x", "l", "s", "x">>, low_cycle_required,
             <<At(11 * Hour)>>),
       Sheet(9, <<"~", "$", "D", "H", ".", "x", "l", "s", "x">>, low_cycle_required,
             <<At(8 * Hour)>>),
       Sheet(10, <<"D", "H", ".", "c", "s", "v">>, low_cycle_required,
             <<At(8 * Hour)>>),
       Sheet(11, <<"E", "W", "2", "0", "2", "3", "1", "1", "2", "0", ".", "x", "l", "s", "x">>, two_network_required,
             <<Clock(8 * Hour)>>),
       Sheet(12, <<"H", "D", "W", "E", ".", "x", "l", "s", "x">>, low_cycle_required,
             <<At(8 * Hour)>>) >>

\* a directory holds up to MaxFiles of the spreadsheets, listed in any order
MgInit ==
    /\ \E n \in 0..MaxFiles : \E listing \in [1..n -> DOMAIN FileCatalog] :
          /\ \A i \in 1..n : \A j \in 1..n : i # j => listing[i] # listing[j]
          /\ data_dir = [i \in 1..n |-> FileCatalog[listing[i]]]
    /\ low_cycle_files = <<>> /\ two_network_files = <<>>
    /\ low_cycle_dfs = <<>> /\ two_network_dfs = <<>>
    /\ low_cycle_combined = None /\ two_network_combined = None /\ all_data = None
    /\ output_file = <<>>
    /\ merge_result = [status |-> "pending"]
    /\ mg_pc = "find"
    /\ RsIdle /\ SmIdle /\ ClIdle /\ DsIdle

(***************************************************************************)
(* HeatDataMerger.merge_all_data, step by step.  An exception of a step    *)
(* leaves the try block: the function re-raises it and does nothing more.  *)
(***************************************************************************)
MgOthers == <<df, hourly_avg, rs_pc, data_series, window_size, confidence, smooth_out, sm_pc,
              original_data, config, df_copy, all_processed, filtered_processed,
              all_processed_data, processed_data, charts, cl_pc, cl_calls,
          uploaded_files, current_page, merged_data, processing_status, last_error, ds_run, ds_pc>>

\* (mutant) only the category-A list is checked
CategoryCheck_LowOnly(low, two) ==
    IF Len(low) = 0 THEN "no_low_cycle_files" ELSE "ok"

\* lines 151-154: the error raised for an empty list of files, "ok" without
CategoryCheck(low, two) ==
    IF Len(low) = 0 THEN "no_low_cycle_files"
    ELSE IF Len(two) = 0 THEN "no_two_network_files"
    ELSE "ok"

\* lines 149-154
FindDataFiles ==
    /\ mg_pc = "find"
    /\ low_cycle_files' = FindLowCycle(data_dir)
    /\ two_network_files' = FindTwoNetwork(data_dir)
    /\ LET check == CategoryCheck(low_cycle_files', two_network_files')
       IN  IF check # "ok"
           THEN /\ merge_result' = RaiseError(check, "", <<>>)
                /\ mg_pc' = "raised"
           ELSE /\ merge_result' = merge_result
                /\ mg_pc' = "low_cycle"
    /\ UNCHANGED <<data_dir, low_cycle_dfs, two_network_dfs, low_cycle_combined,
                   two_network_combined, all_data, output_file>>
    /\ UNCHANGED MgOthers

\* lines 158-159, one iteration
ProcessLowCycle ==
    /\ mg_pc = "low_cycle"
    /\ Len(low_cycle_dfs) < Len(low_cycle_files)
    /\ LET got == ProcessLowCycleData(data_dir[low_cycle_files[Len(low_cycle_dfs) + 1]])
       IN  IF got.status = "raised"
           THEN /\ merge_result' = got
                /\ mg_pc' = "raised"
                /\ UNCHANGED low_cycle_dfs
           ELSE /\ low_cycle_dfs' = Append(low_cycle_dfs, got.table)
                /\ UNCHANGED <<merge_result, mg_pc>>
    /\ UNCHANGED <<data_dir, low_cycle_files, two_network_files, two_network_dfs,
                   low_cycle_combined, two_network_combined, all_data, output_file>>
    /\ UNCHANGED MgOthers

\* (mutant) the category-A table is saved as soon as it is concatenated
ConcatLowCycle_SavesPartial ==
    /\ mg_pc = "low_cycle"
    /\ Len(low_cycle_dfs) = Len(low_cycle_files)
    /\ low_cycle_combined' = Concat(low_cycle_dfs)
    /\ output_file' = Append(output_file, low_cycle_combined')
    /\ mg_pc' = "two_network"
    /\ UNCHANGED <<data_dir, low_cycle_files, two_network_files, low_cycle_dfs, two_network_dfs,
                   two_network_combined, all_data, merge_result>>
    /\ UNCHANGED MgOthers

\* line 160
ConcatLowCycle ==
    /\ mg_pc = "low_cycle"
    /\ Len(low_cycle_dfs) = Len(low_cycle_files)
    /\ low_cycle_combined' = Concat(low_cycle_dfs)
    /\ mg_pc' = "two_network"
    /\ UNCHANGED <<data_dir, low_cycle_files, two_network_files, low_cycle_dfs, two_network_dfs,
                   two_network_combined, all_data, output_file, merge_result>>
    /\ UNCHANGED MgOthers

\* lines 164-165, one iteration
ProcessTwoNetwork ==
    /\ mg_pc = "two_network"
    /\ Len(two_network_dfs) < Len(two_network_files)
    /\ LET got == ProcessTwoNetworkData(data_dir[two_network_files[Len(two_network_dfs) + 1]])
       IN  IF got.status = "raised"
           THEN /\ merge_result' = got
                /\ mg_pc' = "raised"
                /\ UNCHANGED two_network_dfs
           ELSE /\ two_network_dfs' = Append(two_network_dfs, got.table)
                /\ UNCHANGED <<merge_result, mg_pc>>
    /\ UNCHANGED <<data_dir, low_cycle_files, two_network_files, low_cycle_dfs,
                   low_cycle_combined, two_network_combined, all_data, output_file>>
    /\ UNCHANGED MgOthers

\* line 166
ConcatTwoNetwork ==
    /\ mg_pc = "two_network"
    /\ Len(two_network_dfs) = Len(two_network_files)
    /\ two_network_combined' = Concat(two_network_dfs)
    /\ mg_pc' = "merge"
    /\ UNCHANGED <<data_dir, low_cycle_files, two_network_files, low_cycle_dfs, two_network_dfs,
                   low_cycle_combined, all_data, output_file, merge_result>>
    /\ UNCHANGED MgOthers

\* line 169
ConcatAll ==
    /\ mg_pc = "merge"
    /\ all_data' = Concat(<<low_cycle_combined, two_network_combined>>)
    /\ mg_pc' = "save"
    /\ UNCHANGED <<data_dir, low_cycle_files, two_network_files, low_cycle_dfs, two_network_dfs,
                   low_cycle_combined, two_network_combined, output_file, merge_result>>
    /\ UNCHANGED MgOthers

\* line 172
SaveResult ==
    /\ mg_pc = "save"
    /\ output_file' = Append(output_file, all_data)
    /\ mg_pc' = "return"
    /\ UNCHANGED <<data_dir, low_cycle_files, two_network_files, low_cycle_dfs, two_network_dfs,
                   low_cycle_combined, two_network_combined, all_data, merge_result>>
    /\ UNCHANGED MgOthers

\* line 174
ReturnAllData ==
    /\ mg_pc = "return"
    /\ merge_result' = [status |-> "returned", table |-> all_data]
    /\ mg_pc' = "returned"
    /\ UNCHANGED <<data_dir, low_cycle_files, two_network_files, low_cycle_dfs, two_network_dfs,
                   low_cycle_combined, two_network_combined, all_data, output_file>>
    /\ UNCHANGED MgOthers

MgNext ==
    \/ FindDataFiles
    \/ ProcessLowCycle
    \/ ConcatLowCycle
    \/ ProcessTwoNetwork
    \/ ConcatTwoNetwork
    \/ ConcatAll
    \/ SaveResult
    \/ ReturnAllData

SpecMerge == MgInit /\ [][MgNext]_vars

(***************************************************************************)
(* Claims about HeatDataMerger, checked under SpecMerge.                   *)
(***************************************************************************)
\* the file the k-th unified category-A / category-B table was made from
LowFile(k) == data_dir[low_cycle_files[k]]
TwoFile(k) == data_dir[two_network_files[k]]

Stamped == {"source_file", "data_type", "date"}

MgCanonical(t, file) ==
    /\ t.columns = standard_columns
    /\ Len(t.columns) = 27
    /\ \A i \in DOMAIN t.rows : DOMAIN t.rows[i] = Range(standard_columns)
    /\ Len(t.rows) = Len(file.rows)
    /\ \A c \in Range(standard_columns) \ (Range(file.columns) \cup Stamped) :
          \A i \in DOMAIN t.rows : t.rows[i][c] = None
    /\ \A c \in Range(file.columns) \cap (Range(standard_columns) \ (Stamped \cup {"data_time"})) :
          \A i \in DOMAIN t.rows : t.rows[i][c] = file.rows[i][c]

\* C3: a table returned by process_low_cycle_data or process_two_network_data
\* has exactly the 27 canonical columns in canonical order, as many rows as
\* the source file, and None in every canonical column the source lacked
\* (other than the stamped source_file, data_type and date).
C3_CanonicalSchema ==
    /\ \A k \in DOMAIN low_cycle_dfs : MgCanonical(low_cycle_dfs[k], LowFile(k))
    /\ \A k \in DOMAIN two_network_dfs : MgCanonical(two_network_dfs[k], TwoFile(k))

\* a category-A file with a column outside the canonical list and a
\* category-B file, both unified
C3_Witness ==
    /\ \E k \in DOMAIN low_cycle_dfs :
          /\ "remark" \in Range(LowFile(k).columns)
          /\ Len(low_cycle_dfs[k].rows) = 2
          /\ low_cycle_dfs[k].rows[1]["loop"] = None
    /\ \E k \in DOMAIN two_network_dfs :
          /\ "remark" \in Range(TwoFile(k).columns)
          /\ two_network_dfs[k].rows[1]["location"] = None

RECURSIVE MgRowCount(_, _)
MgRowCount(dir, files) ==
    IF files = <<>> THEN 0 ELSE Len(dir[Head(files)].rows) + MgRowCount(dir, Tail(files))

\* the cells (file, row) of the source rows of the listed files, file by file
RECURSIVE MgSourceRows(_, _, _)
MgSourceRows(dir, files, col) ==
    IF files = <<>> THEN <<>>
    ELSE [i \in DOMAIN dir[Head(files)].rows |-> dir[Head(files)].rows[i][col]]
            \o MgSourceRows(dir, Tail(files), col)

MgTagCount(t, tag) == Cardinality({i \in DOMAIN t.rows : t.rows[i]["data_type"] = tag})

\* C4: the master table is the unified category-A rows, file by file in their
\* original order, followed by the unified category-B rows, indexed
\* 0..N+M-1; N rows carry the category-A tag and M the category-B tag.
C4_MergeConservesRows ==
    mg_pc = "returned" =>
        LET N == MgRowCount(data_dir, low_cycle_files)
            M == MgRowCount(data_dir, two_network_files)
            t == merge_result.table
            fromA == MgSourceRows(data_dir, low_cycle_files, "seq_no")
            fromB == MgSourceRows(data_dir, two_network_files, "loop")
        IN  /\ merge_result.status = "returned"
            /\ Len(t.rows) = N + M
            /\ t.index = [i \in 1..(N + M) |-> i - 1]
            /\ MgTagCount(t, "low_cycle") = N
            /\ MgTagCount(t, "two_network") = M
            /\ \A i \in 1..N : /\ t.rows[i]["data_type"] = "low_cycle"
                               /\ t.rows[i]["seq_no"] = fromA[i]
            /\ \A i \in 1..M : /\ t.rows[N + i]["data_type"] = "two_network"
                               /\ t.rows[N + i]["loop"] = fromB[i]

\* two category-A files and a category-B file merged
C4_Witness ==
    /\ mg_pc = "returned"
    /\ Len(low_cycle_files) = 2
    /\ Len(two_network_files) = 1
    /\ Len(merge_result.table.rows) >= 5

MgLacking(file, required) == SelectSeq(required, LAMBDA c : ~(c \in Range(file.columns)))

\* C7: a file that lacks a column required for its category (11 for
\* category A, 14 for category B) makes the unifier raise an error naming the
\* first missing column of the required order; no table is returned for it.
C7_MissingColumnFails ==
    [][ /\ Len(low_cycle_required) = 11 /\ Len(two_network_required) = 14
        /\ (/\ mg_pc = "low_cycle" /\ Len(low_cycle_dfs) < Len(low_cycle_files)
            /\ MgLacking(LowFile(Len(low_cycle_dfs) + 1), low_cycle_required) # <<>>)
           => /\ mg_pc' = "raised"
              /\ merge_result'.status = "raised"
              /\ merge_result'.error = "low_cycle_missing_column"
              /\ merge_result'.column =
                    Head(MgLacking(LowFile(Len(low_cycle_dfs) + 1), low_cycle_required))
              /\ low_cycle_dfs' = low_cycle_dfs
        /\ (/\ mg_pc = "two_network" /\ Len(two_network_dfs) < Len(two_network_files)
            /\ MgLacking(TwoFile(Len(two_network_dfs) + 1), two_network_required) # <<>>)
           => /\ mg_pc' = "raised"
              /\ merge_result'.status = "raised"
              /\ merge_result'.error = "two_network_missing_column"
              /\ merge_result'.column =
                    Head(MgLacking(TwoFile(Len(two_network_dfs) + 1), two_network_required))
              /\ two_network_dfs' = two_network_dfs
      ]_vars

\* the category-A file without floor and alarm was processed: floor is named
C7_Witness ==
    /\ mg_pc = "raised"
    /\ merge_result.error = "low_cycle_missing_column"
    /\ merge_result.column = "floor"
    /\ ~("alarm" \in Range(LowFile(Len(low_cycle_dfs) + 1).columns))

\* the positions of a file name at which a YYYY-MM-DD substring starts
MgDatePositions(name) ==
    {i \in 1..(Len(name) - 9) :
        \A j \in 0..9 : IF j \in {4, 7} THEN name[i + j] = "-" ELSE name[i + j] \in Digits}

\* C8: every row of a unified category-B table carries as date the first
\* YYYY-MM-DD substring of the file name, whatever its clock time; a file
\* whose name holds no such substring makes the unifier raise an error naming
\* the file, and no table is returned for it.
C8_DateFromFileName ==
    [][ (/\ mg_pc = "two_network" /\ Len(two_network_dfs) < Len(two_network_files)
         /\ MgLacking(TwoFile(Len(two_network_dfs) + 1), two_network_required) = <<>>)
        => LET f == TwoFile(Len(two_network_dfs) + 1)
               at == MgDatePositions(f.name)
           IN  IF at = {}
               THEN /\ mg_pc' = "raised"
                    /\ merge_result'.status = "raised"
                    /\ merge_result'.error = "two_network_no_date"
                    /\ merge_result'.file = f.name
                    /\ two_network_dfs' = two_network_dfs
               ELSE /\ Len(two_network_dfs') = Len(two_network_dfs) + 1
                    /\ \A i \in DOMAIN f.rows :
                          two_network_dfs'[Len(two_network_dfs')].rows[i]["date"] =
                              SubSeq(f.name, SetMin(at), SetMin(at) + 9)
      ]_vars

\* the file whose name holds two dates is unified: its rows carry the first,
\* with and without a valid clock time
C8_Witness ==
    \E k \in DOMAIN two_network_dfs :
        /\ Cardinality(MgDatePositions(TwoFile(k).name)) = 2
        /\ Len(two_network_dfs[k].rows) = Len(TwoFile(k).rows)
        /\ \A i \in DOMAIN two_network_dfs[k].rows :
              two_network_dfs[k].rows[i]["date"] = DayNames[2]
        /\ two_network_dfs[k].rows[1]["data_time"] # NaT
        /\ two_network_dfs[k].rows[2]["data_time"] = NaT

\* C9: with no category-A file or no category-B file discovered,
\* merge_all_data raises; no file is unified, no master table exists and
\* nothing is written.
C9_NoFilesOfACategory ==
    (mg_pc # "find" /\ (Len(low_cycle_files) = 0 \/ Len(two_network_files) = 0)) =>
        /\ mg_pc = "raised"
        /\ merge_result.status = "raised"
        /\ merge_result.error =
              (IF Len(low_cycle_files) = 0 THEN "no_low_cycle_files" ELSE "no_two_network_files")
        /\ low_cycle_dfs = <<>> /\ two_network_dfs = <<>>
        /\ all_data = None
        /\ output_file = <<>>

\* a directory with category-A files only
C9_Witness ==
    /\ mg_pc = "raised"
    /\ Len(low_cycle_files) = 2
    /\ Len(two_network_files) = 0
    /\ merge_result.error = "no_two_network_files"

\* C10: the output file is written at most once, with the master table, and
\* only after every discovered file of both categories was unified and the
\* concatenations were done; a run that raised wrote nothing.
C10_OutputOnlyAfterSuccess ==
    /\ Len(output_file) <= 1
    /\ output_file # <<>> =>
          /\ Len(low_cycle_files) > 0 /\ Len(two_network_files) > 0
          /\ Len(low_cycle_dfs) = Len(low_cycle_files)
          /\ Len(two_network_dfs) = Len(two_network_files)
          /\ low_cycle_combined # None /\ two_network_combined # None
          /\ all_data # None
          /\ output_file[1] = all_data
          /\ mg_pc \in {"return", "returned"}
    /\ mg_pc = "raised" => (output_file = <<>> /\ merge_result.status = "raised")
    /\ mg_pc = "returned" => Len(output_file) = 1

\* a run that wrote the file, and (in another run) one that failed at the
\* last category-B file after everything else was unified
C10_Witness ==
    /\ mg_pc = "returned"
    /\ Len(output_file) = 1
    /\ Len(low_cycle_dfs) + Len(two_network_dfs) = MaxFiles

C10_WitnessAbort ==
    /\ mg_pc = "raised"
    /\ Len(low_cycle_dfs) >= 1 /\ Len(two_network_dfs) >= 1
    /\ output_file = <<>>

(***************************************************************************)
(* C12: a bad timestamp neither fails the unifier nor drops its row.       *)
(***************************************************************************)
MgBadLowTime(cell) == cell.kind # "datetime"
MgBadTwoTime(cell) == cell.kind \in {"null", "blank", "digits", "text"}

\* the rows of the unified table t stand for the rows of file, one for one,
\* and the rows with a bad time have a missing instant
MgBadTimesKept(t, file, isLow) ==
    /\ Len(t.rows) = Len(file.rows)
    /\ \A i \in DOMAIN file.rows :
          /\ \A c \in (Range(file.columns) \cap Range(standard_columns)) \ ({"data_time"} \cup Stamped) :
                t.rows[i][c] = file.rows[i][c]
          /\ IF isLow
             THEN MgBadLowTime(file.rows[i]["data_time"]) =>
                     t.rows[i]["data_time"] = NaT /\ t.rows[i]["date"] = NoDate
             ELSE MgBadTwoTime(file.rows[i]["data_time"]) =>
                     t.rows[i]["data_time"] = NaT /\ t.rows[i]["date"] = DateSearch(file.name)

\* the file a unifier step is about to read
MgNextLow == data_dir[low_cycle_files[Len(low_cycle_dfs) + 1]]
MgNextTwo == data_dir[two_network_files[Len(two_network_dfs) + 1]]

\* a unifier step on a file that has its required columns (and, for category
\* B, a date in its name) appends a table and does not raise
MgLowStepSucceeds ==
    (/\ mg_pc = "low_cycle" /\ Len(low_cycle_dfs) < Len(low_cycle_files)
     /\ MgLacking(MgNextLow, low_cycle_required) = <<>>)
    => (Len(low_cycle_dfs') = Len(low_cycle_dfs) + 1 /\ mg_pc' # "raised")

MgTwoStepSucceeds ==
    (/\ mg_pc = "two_network" /\ Len(two_network_dfs) < Len(two_network_files)
     /\ MgLacking(MgNextTwo, two_network_required) = <<>>
     /\ DateSearch(MgNextTwo.name) # <<>>)
    => (Len(two_network_dfs') = Len(two_network_dfs) + 1 /\ mg_pc' # "raised")

MgAllBadTimesKept ==
    /\ \A k \in DOMAIN low_cycle_dfs : MgBadTimesKept(low_cycle_dfs[k], LowFile(k), TRUE)
    /\ \A k \in DOMAIN two_network_dfs : MgBadTimesKept(two_network_dfs[k], TwoFile(k), FALSE)

\* C12: unifying a file that has its required columns (and, for category B,
\* a date in its name) never fails whatever its time cells hold, and every
\* row with an unparseable, null, blank or colon-less time is kept, with a
\* missing instant: a category-A row then has no date, a category-B row the
\* date of the file name.
C12_BadTimestampsKept ==
    []MgAllBadTimesKept /\ [][MgLowStepSucceeds /\ MgTwoStepSucceeds]_vars

\* a merge that returned although a category-A row had unparseable text and
\* category-B rows had a null, a blank, a colon-less and an unparseable time
C12_Witness ==
    /\ mg_pc = "returned"
    /\ \E k \in DOMAIN low_cycle_dfs : \E i \in DOMAIN LowFile(k).rows :
          LowFile(k).rows[i]["data_time"].kind = "text"
    /\ \A kind \in {"null", "blank", "digits", "text"} :
          \E k \in DOMAIN two_network_dfs : \E i \in DOMAIN TwoFile(k).rows :
             TwoFile(k).rows[i]["data_time"].kind = kind

(***************************************************************************)
(* C20: validation of the master table before it is written.               *)
(***************************************************************************)
\* the steps of merge_all_data at which the row count and the tag counts of
\* the master table are compared with the inputs: lines 169-172 have none
ValidationSteps == {}

\* C20: the master table is written only from a step that has validated its
\* row count and its per-category tag counts.
C20_ValidatedBeforeWrite ==
    [][output_file' # output_file => mg_pc \in ValidationSteps]_vars

(***************************************************************************)
(* C17: the window of the smoothed value.                                  *)
(***************************************************************************)
\* the mean of the non-missing input values at positions i - below .. i + above
\* inside the series, when at least max(1, window_size // 2) are non-missing
SmMeanAround(i, below, above) ==
    LET W == {j \in DOMAIN data_series.values : i - below <= j /\ j <= i + above}
        obs == {j \in W : ~data_series.values[j].nan}
        need == IF window_size \div 2 > 1 THEN window_size \div 2 ELSE 1
    IN  IF Cardinality(obs) >= need
        THEN Frac(SumOver(data_series, obs), Cardinality(obs))
        ELSE NaN

\* C17 as claimed: the window is i - window_size//2 .. i + window_size//2 for
\* every window_size, odd or even.
C17_SymmetricWindow ==
    SmDone =>
        \A i \in DOMAIN data_series.values :
            smooth_out.smoothed.values[i] =
                SmMeanAround(i, window_size \div 2, window_size \div 2)

\* C17 (amended): the smoothed value at position i is the mean of the
\* non-missing input values at positions i - window_size//2 ..
\* i + (window_size-1)//2 inside the series, provided at least
\* max(1, window_size//2) of them are non-missing, and is missing otherwise.
C17_CenteredWindow ==
    SmDone =>
        \A i \in DOMAIN data_series.values :
            smooth_out.smoothed.values[i] =
                SmMeanAround(i, window_size \div 2, (window_size - 1) \div 2)

\* an even window over a series where the value window_size//2 positions
\* after some position is present and changes the symmetric mean
C17_Witness ==
    /\ SmDone
    /\ window_size % 2 = 0
    /\ \E i \in DOMAIN data_series.values :
          /\ i + (window_size \div 2) \in DOMAIN data_series.values
          /\ ~data_series.values[i + (window_size \div 2)].nan
          /\ ~smooth_out.smoothed.values[i].nan
          /\ smooth_out.smoothed.values[i] #
                SmMeanAround(i, window_size \div 2, window_size \div 2)

(***************************************************************************)
(* ChartGenerator.clean_and_preprocess_data and plot_all_charts            *)
(* (chart_generator.py).                                                   *)
(*                                                                         *)
(* A table here also has the field obj, the object it is.  The calendar    *)
(* is compressed to the days the code can produce: day 0 is 1900-01-01     *)
(* (the date strptime gives a bare clock time), day 1 is 2023-01-01 (the   *)
(* start of the default range), days 2, 3, 4 are 2023-11-20, -21, -22,     *)
(* and day 6 is the day of the run (the date inference gives a bare clock  *)
(* time).  A cell of data_time is [kind, t]: text 'HH:MM' ("hm", t the     *)
(* minutes of the day), text 'YYYY-mm-dd HH:MM' ("ymdhm") or with seconds  *)
(* ("ymdhms"), a Timestamp ("datetime"), each with t the instant, other    *)
(* text ("text") or a null ("null").  A key cell is text or a number, with *)
(* s its str(), or None; a measurement cell is a number v, text, or None.  *)
(***************************************************************************)
Epoch1900 == 0
DefaultStart == DayMinutes
DataEpoch == 2 * DayMinutes
Today == 6 * DayMinutes

Hm(t) == [kind |-> "hm", t |-> t]
Ymdhm(t) == [kind |-> "ymdhm", t |-> t]
Ymdhms(t) == [kind |-> "ymdhms", t |-> t]
Str(s) == [kind |-> "str", s |-> s]
IntCell(s) == [kind |-> "int", s |-> s]
Val(v) == [kind |-> "num", v |-> Num(v)]
BadText == [kind |-> "text"]

\* line 98
time_formats == <<"hm", "ymdhm", "ymdhms">>

\* lines 118-119: 位置, 地点, 区域, location, area / 楼层, floor, 层
location_columns == <<"location", "place", "region", "location_en", "area_en">>
floor_columns == <<"floor", "floor_en", "storey">>

\* line 146
numeric_columns == <<"room_temp", "inst_flow", "supply_temp", "return_temp">>

\* lines 20-21 and the default of the confidence parameter (line 689), in percent
smoothing_window == 5
confidence_level == 95

Column(t, col) == [i \in DOMAIN t.rows |-> t.rows[i][col]]

\* df[col] = values on the object t
ClSetColumn(t, col, values) == [obj |-> t.obj] @@ SetColumn(t, col, values)

\* the rows of t at the positions keep, as the new object obj
TakeRows(t, keep, obj) ==
    [obj |-> obj, columns |-> t.columns,
     index |-> [k \in DOMAIN keep |-> t.index[keep[k]]],
     rows |-> [k \in DOMAIN keep |-> t.rows[keep[k]]]]

Positions(t) == [i \in DOMAIN t.rows |-> i]

\* (mutant) no copy is made: the same object under another name
Copy_SameObject(t, name) == t

\* DataFrame.copy(): a new object with the same content
Copy(t, name) == [t EXCEPT !.obj = name]

(***************************************************************************)
(* 1. the time column (lines 95-114)                                       *)
(***************************************************************************)
\* a value pd.to_datetime(format=fmt, errors='raise') accepts
ParsesUnder(cell, fmt) == cell.kind \in {"null", "datetime", fmt}

Strptime(cell) ==
    IF cell.kind = "null" THEN NaT
    ELSE IF cell.kind = "hm" THEN Epoch1900 + cell.t
    ELSE cell.t

\* the inference of one value by itself
InferEach(cell) ==
    IF cell.kind \in {"null", "text"} THEN NaT
    ELSE IF cell.kind = "hm" THEN Today + cell.t
    ELSE cell.t

\* pd.to_datetime(column, errors='coerce'): the library either infers every
\* value by itself or guesses one format from the first non-null value (when
\* that value has a date) and coerces what does not match it
InferenceModes == {"each", "guess"}

InferColumn(cells, mode) ==
    LET given == {i \in DOMAIN cells : cells[i].kind # "null"}
        first == IF given = {} THEN "null" ELSE cells[SetMin(given)].kind
    IN  IF mode = "guess" /\ first \in {"ymdhm", "ymdhms"}
        THEN [i \in DOMAIN cells |->
                IF cells[i].kind \in {first, "datetime"} THEN cells[i].t ELSE NaT]
        ELSE [i \in DOMAIN cells |-> InferEach(cells[i])]

\* (mutant) every value is parsed with the first format that fits it
ToDatetimeColumn_PerValue(cells, mode) ==
    [i \in DOMAIN cells |->
        IF \E k \in DOMAIN time_formats : ParsesUnder(cells[i], time_formats[k])
        THEN Strptime(cells[i]) ELSE NaT]

\* lines 98-111: the first format the whole column parses under, else inference
ToDatetimeColumn(cells, mode) ==
    LET fits == {k \in DOMAIN time_formats :
                    \A i \in DOMAIN cells : ParsesUnder(cells[i], time_formats[k])}
    IN  IF fits # {}
        THEN [i \in DOMAIN cells |-> Strptime(cells[i])]
        ELSE InferColumn(cells, mode)

ParseTime(t, mode) ==
    IF HasColumn(t, "data_time")
    THEN ClSetColumn(t, "datetime", ToDatetimeColumn(Column(t, "data_time"), mode))
    ELSE ClSetColumn(t, "datetime", [i \in DOMAIN t.rows |-> DefaultStart + (i - 1) * Hour])

(***************************************************************************)
(* 2. the location and floor keys (lines 116-143)                          *)
(***************************************************************************)
\* astype(str) of a key cell
AsTypeStr(cell) == IF "s" \in DOMAIN cell THEN cell.s ELSE "None"

\* (mutant) the last of the candidate columns that exists
FirstPresent_Last(t, names) ==
    LET there == {k \in DOMAIN names : HasColumn(t, names[k])}
    IN  IF there = {} THEN "" ELSE names[SetMax(there)]

\* the first of the candidate columns that exists, "" when none does
FirstPresent(t, names) ==
    LET there == {k \in DOMAIN names : HasColumn(t, names[k])}
    IN  IF there = {} THEN "" ELSE names[SetMin(there)]

KeyColumn(t, names, sentinel) ==
    LET col == FirstPresent(t, names)
    IN  IF col = "" THEN Broadcast(t, sentinel)
        ELSE [i \in DOMAIN t.rows |-> AsTypeStr(t.rows[i][col])]

UnifyKeys(t) ==
    LET t1 == ClSetColumn(t, "location", KeyColumn(t, location_columns, "default_location"))
    IN  ClSetColumn(t1, "floor", KeyColumn(t1, floor_columns, "1"))

(***************************************************************************)
(* 3. the measurements (lines 145-151)                                     *)
(***************************************************************************)
\* (mutant) text that is not a number is kept
ToNumeric_KeepsText(cell) ==
    IF "v" \in DOMAIN cell THEN cell.v ELSE IF cell = BadText THEN cell ELSE NaN

\* pd.to_numeric(errors='coerce') of a measurement cell
ToNumeric(cell) == IF "v" \in DOMAIN cell THEN cell.v ELSE NaN

CoerceNumeric(t) ==
    [t EXCEPT !.rows = [i \in DOMAIN t.rows |->
        [c \in DOMAIN t.rows[i] |->
            IF c \in Range(numeric_columns) THEN ToNumeric(t.rows[i][c]) ELSE t.rows[i][c]]]]

\* lines 93-151 on the copy
Normalize(t, mode) == CoerceNumeric(UnifyKeys(ParseTime(t, mode)))

(***************************************************************************)
(* 4. the date range (lines 153-162); a date that is not set is NaT        *)
(***************************************************************************)
DateFilter(t, cfg) ==
    LET from == cfg.start_date
        to == cfg.end_date
        at(i) == t.rows[i]["datetime"]
        keep == SelectSeq(Positions(t), LAMBDA i :
                    /\ at(i) # NaT
                    /\ from # NaT => at(i) >= from
                    /\ to # NaT => at(i) <= to)
    IN  IF from = NaT /\ to = NaT THEN t ELSE TakeRows(t, keep, "masked")

(***************************************************************************)
(* 5. the sort (line 165)                                                  *)
(***************************************************************************)
Perms(n) == {p \in [1..n -> 1..n] : \A i \in 1..n : \A j \in 1..n : i # j => p[i] # p[j]}

\* the orders sort_values('datetime') can give with the default kind
\* 'quicksort': ascending, the missing instants last in their original order;
\* the order of rows with equal instants is not determined
Argsort(times) ==
    {p \in Perms(Len(times)) :
        \A a \in DOMAIN times : \A b \in DOMAIN times :
            a < b =>
               \/ times[p[b]] = NaT /\ (times[p[a]] = NaT => p[a] < p[b])
               \/ /\ times[p[a]] # NaT /\ times[p[b]] # NaT
                  /\ times[p[a]] <= times[p[b]]}

SortValues(t) == {TakeRows(t, p, t.obj) : p \in Argsort(Column(t, "datetime"))}

(***************************************************************************)
(* 6, 7. resampling of the whole table and of the selected rows            *)
(***************************************************************************)
\* _resample_data(d): the table d itself without a measurement column
ResampleTable(d, name) ==
    LET got == ResampleData(d)
    IN  IF got.status = "raised" THEN got
        ELSE IF \A c \in Range(value_columns) : ~HasColumn(d, c) THEN d
        ELSE [obj |-> name, columns |-> got.columns, index |-> got.index, rows |-> got.rows]

\* lines 171-175, and the same selection in _plot_room_temperature_chart
SelectKeys(t, cfg, name) ==
    LET keep == SelectSeq(Positions(t), LAMBDA i :
                    /\ cfg.selected_locations # {} => t.rows[i]["location"] \in cfg.selected_locations
                    /\ cfg.selected_floors # {} => t.rows[i]["floor"] \in cfg.selected_floors)
    IN  IF cfg.selected_locations = {} /\ cfg.selected_floors = {} THEN t
        ELSE TakeRows(t, keep, name)

(***************************************************************************)
(* plot_all_charts: per chart path, the series drawn raw and what          *)
(* smooth_data_with_confidence returned for it when it was invoked.        *)
(***************************************************************************)
RECURSIVE SortedSeq(_)
SortedSeq(S) == IF S = {} THEN <<>> ELSE <<SetMin(S)>> \o SortedSeq(S \ {SetMin(S)})

\* Series.dropna()
DropNa(series) ==
    LET keep == SelectSeq([i \in DOMAIN series.values |-> i], LAMBDA i : ~series.values[i].nan)
    IN  [index |-> [k \in DOMAIN keep |-> series.index[keep[k]]],
         values |-> [k \in DOMAIN keep |-> series.values[keep[k]]]]

\* data[mask][col] for the rows of the key k (lines 335-336)
KeySeries(data, k, col) ==
    LET at == SelectSeq(Positions(data), LAMBDA i :
                  data.rows[i]["location"] = k[1] /\ data.rows[i]["floor"] = k[2])
    IN  [index |-> [j \in DOMAIN at |-> data.index[at[j]]],
         values |-> [j \in DOMAIN at |-> data.rows[at[j]][col]]]

\* (mutant) the value of the first row of each instant instead of the mean
TimeMeanSeries_First(data, col) ==
    LET times == SortedSeq(Range(data.index))
    IN  [index |-> times,
         values |-> [j \in DOMAIN times |-> data.rows[IndexOf(data.index, times[j])][col]]]

\* data.groupby(data.index)[col].mean() (lines 478, 586-587)
TimeMeanSeries(data, col) ==
    LET times == SortedSeq(Range(data.index))
        cellsAt(h) == LET at == SelectSeq(Positions(data), LAMBDA i : data.index[i] = h)
                      IN  [j \in DOMAIN at |-> data.rows[at[j]][col]]
    IN  [index |-> times, values |-> [j \in DOMAIN times |-> BinMean(cellsAt(times[j]))]]

NotSmoothed == [status |-> "none"]

\* (mutant) a series of two points is smoothed as well
Draw_FromTwoPoints(path, raw, smooth) ==
    [path |-> path, raw |-> raw,
     smoothing |-> IF smooth /\ Len(raw.values) >= 2
                   THEN [status |-> "ok"] @@ SmoothDataWithConfidence(raw, smoothing_window, confidence_level)
                   ELSE NotSmoothed]

\* ax.plot of a non-empty series, and 'if smooth and len(series) >= 3:' after it
Draw(path, raw, smooth) ==
    [path |-> path, raw |-> raw,
     smoothing |-> IF smooth /\ Len(raw.values) >= 3
                   THEN [status |-> "ok"] @@ SmoothDataWithConfidence(raw, smoothing_window, confidence_level)
                   ELSE NotSmoothed]

DrawAll(path, series, smooth) ==
    LET some == SelectSeq(series, LAMBDA x : x.values # <<>>)
    IN  [j \in DOMAIN some |-> Draw(path, some[j], smooth)]

\* _plot_room_temperature_chart (lines 288-390)
RoomTemperatureChart(apd, cfg, smooth) ==
    LET data == SelectKeys(apd, cfg, "data")
        keys == GroupKeys(data.rows)
    IN  IF data.rows # <<>>
        THEN DrawAll("room_keyed", [g \in DOMAIN keys |-> DropNa(KeySeries(data, keys[g], "room_temp"))], smooth)
        ELSE DrawAll("room_plain", <<DropNa([index |-> data.index, values |-> Column(data, "room_temp")])>>, smooth)

\* _plot_instant_flow_chart (lines 450-500)
InstantFlowChart(apd, smooth) ==
    DrawAll("flow", <<DropNa(TimeMeanSeries(apd, "inst_flow"))>>, smooth)

\* _plot_supply_return_chart (lines 559-630)
SupplyReturnChart(apd, smooth) ==
    DrawAll("supply", <<DropNa(TimeMeanSeries(apd, "supply_temp"))>>, smooth)
    \o DrawAll("return", <<DropNa(TimeMeanSeries(apd, "return_temp"))>>, smooth)

\* plot_all_charts (lines 258-286)
PlotAllCharts(apd, cfg, smooth) ==
    (IF HasColumn(apd, "room_temp") THEN RoomTemperatureChart(apd, cfg, smooth) ELSE <<>>)
    \o (IF HasColumn(apd, "inst_flow") THEN InstantFlowChart(apd, smooth) ELSE <<>>)
    \o (IF HasColumn(apd, "supply_temp") /\ HasColumn(apd, "return_temp")
        THEN SupplyReturnChart(apd, smooth) ELSE <<>>)

(***************************************************************************)
(* The tables and configurations of the model.                             *)
(***************************************************************************)
\* a category-A file of three hourly rows of location L1, floor 1 and a
\* category-B file named for 2023-11-20 with three hourly rows
ScenarioLow ==
    [name |-> <<"D", "H", ".", "x", "l", "s", "x">>,
     columns |-> low_cycle_required,
     rows |-> [i \in 1..3 |-> [c \in Range(low_cycle_required) |->
                 IF c = "data_time" THEN At((7 + i) * Hour)
                 ELSE IF c = "location" THEN Str("L1")
                 ELSE IF c = "floor" THEN IntCell("1")
                 ELSE IF c = "room_temp" THEN Val(20 + i)
                 ELSE Held(1, i)]]]

ScenarioTwo ==
    [name |-> <<"E", "W", "2", "0", "2", "3", "-", "1", "1", "-", "2", "0", ".", "x", "l", "s", "x">>,
     columns |-> two_network_required,
     rows |-> [i \in 1..3 |-> [c \in Range(two_network_required) |->
                 IF c = "data_time" THEN Clock((7 + i) * Hour)
                 ELSE IF c = "inst_flow" THEN Val(10 + i)
                 ELSE IF c = "supply_temp" THEN Val(60 + i)
                 ELSE IF c = "return_temp" THEN Val(40 + i)
                 ELSE Held(2, i)]]]

\* the category-B file with text instead of a number in its last flow cell
ScenarioTwoGap ==
    [ScenarioTwo EXCEPT !.rows[3]["inst_flow"] = BadText]

\* merge_all_data on a directory holding the two files
ScenarioMerged ==
    Concat(<<Concat(<<ProcessLowCycleData(ScenarioLow).table>>),
             Concat(<<ProcessTwoNetworkData(ScenarioTwo).table>>)>>)

ScenarioMergedGap ==
    Concat(<<Concat(<<ProcessLowCycleData(ScenarioLow).table>>),
             Concat(<<ProcessTwoNetworkData(ScenarioTwoGap).table>>)>>)

\* ChartGenerator(data) on the master table: its data_time column holds
\* Timestamps (on the calendar of this section) and NaT
ToChartInput(t) ==
    [obj |-> "original_data", columns |-> t.columns, index |-> t.index,
     rows |-> [i \in DOMAIN t.rows |-> [c \in DOMAIN t.rows[i] |->
                 IF c # "data_time" THEN t.rows[i][c]
                 ELSE IF t.rows[i][c] = NaT THEN Cell("null")
                 ELSE At(DataEpoch + t.rows[i][c])]]]

\* the sheets of the model: a header and the rows a sheet may hold
TextTimes ==
    [columns |-> <<"data_time", "room_temp">>,
     rows |-> {[data_time |-> t, room_temp |-> Val(10)] :
                 t \in {Hm(8 * Hour), Ymdhm(DataEpoch + 8 * Hour), Ymdhms(DataEpoch + 8 * Hour + 30),
                        Cell("text"), Cell("null")}}]

StampedTimes ==
    [columns |-> <<"data_time", "location", "floor", "room_temp">>,
     rows |-> {[data_time |-> t, location |-> l, floor |-> IntCell("1"), room_temp |-> Val(10)] :
                 t \in {At(DataEpoch + 8 * Hour), At(DataEpoch + 8 * Hour + 30), Cell("null")},
                 l \in {Str("L1"), Str("L2")}}]

Aliased ==
    [columns |-> <<"area_en", "place", "storey", "floor_en", "room_temp", "inst_flow">>,
     rows |-> {[area_en |-> Str("L2"), place |-> l, storey |-> Str("1"), floor_en |-> f,
                room_temp |-> v, inst_flow |-> Val(20)] :
                 l \in {Str("L1"), None}, f \in {IntCell("2"), Str("1")}, v \in {Val(10), BadText}}]

Regional ==
    [columns |-> <<"region", "location", "storey", "floor", "supply_temp", "return_temp">>,
     rows |-> {[region |-> Str("L2"), location |-> l, storey |-> Str("2"), floor |-> IntCell("1"),
                supply_temp |-> Val(60), return_temp |-> Val(40)] :
                 l \in {Str("L1"), Str("L2")}}]

Bare ==
    [columns |-> <<"data_time", "note">>,
     rows |-> {[data_time |-> t, note |-> Str(n)] :
                 t \in {At(DataEpoch + 8 * Hour), Cell("null")}, n \in {"a", "b"}}]

Sheets == {TextTimes, StampedTimes, Aliased, Regional, Bare}

\* a table of two keys with two readings of one key and one of the other in
\* the hour of 08:00, no reading at 09:00 and a reading without flow at 10:00
Uneven ==
    [obj |-> "original_data",
     columns |-> <<"data_time", "location", "floor", "inst_flow", "supply_temp", "return_temp">>,
     index |-> <<0, 1, 2, 3>>,
     rows |-> << [data_time |-> At(DataEpoch + 8 * Hour), location |-> Str("L1"), floor |-> IntCell("1"),
                  inst_flow |-> Val(10), supply_temp |-> Val(60), return_temp |-> Val(40)],
                 [data_time |-> At(DataEpoch + 8 * Hour + 30), location |-> Str("L1"), floor |-> IntCell("1"),
                  inst_flow |-> Val(20), supply_temp |-> Val(62), return_temp |-> None],
                 [data_time |-> At(DataEpoch + 8 * Hour), location |-> Str("L2"), floor |-> IntCell("1"),
                  inst_flow |-> Val(30), supply_temp |-> Val(66), return_temp |-> Val(44)],
                 [data_time |-> At(DataEpoch + 10 * Hour), location |-> Str("L2"), floor |-> IntCell("1"),
                  inst_flow |-> BadText, supply_temp |-> Val(70), return_temp |-> Val(50)] >>]

ClInputs ==
    {ToChartInput(ScenarioMerged), ToChartInput(ScenarioMergedGap), Uneven} \cup
    UNION {{[obj |-> "original_data", columns |-> sh.columns,
             index |-> [i \in 1..n |-> i - 1], rows |-> rows] :
               rows \in [1..n -> sh.rows]} : sh \in Sheets, n \in 0..MaxInputRows}

ClConfigs ==
    [start_date : {NaT, DataEpoch + 8 * Hour + 30},
     end_date : {NaT, DataEpoch + 9 * Hour},
     selected_locations : {{}, {"L1"}, {"L9"}},
     selected_floors : {{}, {"1"}}]

ClInit ==
    /\ original_data \in ClInputs
    /\ config \in ClConfigs
    /\ df_copy = None /\ all_processed = None /\ filtered_processed = None
    /\ all_processed_data = None /\ processed_data = None
    /\ charts = [status |-> "pending"]
    /\ cl_pc = "prepare"
    /\ cl_calls = 1
    /\ RsIdle /\ SmIdle /\ MgIdle /\ DsIdle

(***************************************************************************)
(* clean_and_preprocess_data step by step; an exception of a step is       *)
(* caught (lines 184-186) and the function returns False.                  *)
(***************************************************************************)
ClOthers == <<rs_vars, sm_vars, mg_vars, ds_vars>>

IsRaised(got) == "status" \in DOMAIN got

\* lines 93-165: copy, normalise, filter by date, sort.  The assignments and
\* the sort act in place on the object they are applied to.
ClPrepare ==
    /\ cl_pc = "prepare"
    /\ \E mode \in InferenceModes :
          LET normal == Normalize(Copy(original_data, "df_copy"), mode)
              masked == DateFilter(normal, config)
          IN  \E sorted \in SortValues(masked) :
                 /\ df_copy' = sorted
                 /\ original_data' = IF normal.obj # original_data.obj THEN original_data
                                     ELSE IF masked.obj = normal.obj THEN sorted
                                     ELSE normal
    /\ cl_pc' = "resample_all"
    /\ UNCHANGED <<config, all_processed, filtered_processed, all_processed_data,
                   processed_data, charts, cl_calls>>
    /\ UNCHANGED ClOthers

\* (mutant) the whole-table result is computed from the selected rows
ClResampleAll_Selected ==
    /\ cl_pc = "resample_all"
    /\ LET got == ResampleTable(SelectKeys(df_copy, config, "filtered_df"), "all_processed")
       IN  IF IsRaised(got)
           THEN cl_pc' = "returned_false" /\ UNCHANGED all_processed
           ELSE cl_pc' = "resample_filtered" /\ all_processed' = got
    /\ UNCHANGED <<original_data, config, df_copy, filtered_processed, all_processed_data,
                   processed_data, charts, cl_calls>>
    /\ UNCHANGED ClOthers

\* (mutant) the whole-table result is stored as soon as it is computed
ClResampleAll_StoresEarly ==
    /\ cl_pc = "resample_all"
    /\ LET got == ResampleTable(df_copy, "all_processed")
       IN  IF IsRaised(got)
           THEN cl_pc' = "returned_false" /\ UNCHANGED <<all_processed, all_processed_data>>
           ELSE cl_pc' = "resample_filtered" /\ all_processed' = got /\ all_processed_data' = got
    /\ UNCHANGED <<original_data, config, df_copy, filtered_processed,
                   processed_data, charts, cl_calls>>
    /\ UNCHANGED ClOthers

\* line 168
ClResampleAll ==
    /\ cl_pc = "resample_all"
    /\ LET got == ResampleTable(df_copy, "all_processed")
       IN  IF IsRaised(got)
           THEN cl_pc' = "returned_false" /\ UNCHANGED all_processed
           ELSE cl_pc' = "resample_filtered" /\ all_processed' = got
    /\ UNCHANGED <<original_data, config, df_copy, filtered_processed, all_processed_data,
                   processed_data, charts, cl_calls>>
    /\ UNCHANGED ClOthers

\* lines 171-177
ClResampleFiltered ==
    /\ cl_pc = "resample_filtered"
    /\ LET filtered_df == SelectKeys(Copy(df_copy, "filtered_df"), config, "filtered_df")
           got == ResampleTable(filtered_df, "filtered_processed")
       IN  IF IsRaised(got)
           THEN cl_pc' = "returned_false" /\ UNCHANGED filtered_processed
           ELSE cl_pc' = "store" /\ filtered_processed' = got
    /\ UNCHANGED <<original_data, config, df_copy, all_processed, all_processed_data,
                   processed_data, charts, cl_calls>>
    /\ UNCHANGED ClOthers

\* lines 180-183
ClStore ==
    /\ cl_pc = "store"
    /\ all_processed_data' = all_processed
    /\ processed_data' = filtered_processed
    /\ cl_pc' = "returned_true"
    /\ UNCHANGED <<original_data, config, df_copy, all_processed, filtered_processed, charts, cl_calls>>
    /\ UNCHANGED ClOthers

\* the caller selects other locations (config.selected_locations) and calls
\* clean_and_preprocess_data again on the same generator
ClCallAgain ==
    /\ cl_pc \in {"returned_true", "returned_false"}
    /\ cl_calls < MaxCalls
    /\ \E selected \in {{"L1"}, {"L9"}} \ {config.selected_locations} :
          config' = [config EXCEPT !.selected_locations = selected]
    /\ df_copy' = None /\ all_processed' = None /\ filtered_processed' = None
    /\ cl_pc' = "prepare"
    /\ cl_calls' = cl_calls + 1
    /\ UNCHANGED <<original_data, all_processed_data, processed_data, charts>>
    /\ UNCHANGED ClOthers

\* plot_all_charts(smooth) after a successful clean_and_preprocess_data
ClPlotAllCharts ==
    /\ cl_pc = "returned_true"
    /\ \E smooth \in BOOLEAN :
          charts' = [status |-> "ok", smooth |-> smooth,
                     drawn |-> PlotAllCharts(all_processed_data, config, smooth)]
    /\ cl_pc' = "plotted"
    /\ UNCHANGED <<original_data, config, df_copy, all_processed, filtered_processed,
                   all_processed_data, processed_data, cl_calls>>
    /\ UNCHANGED ClOthers

ClNext ==
    \/ ClPrepare
    \/ ClResampleAll
    \/ ClResampleFiltered
    \/ ClStore
    \/ ClCallAgain
    \/ ClPlotAllCharts

SpecClean == ClInit /\ [][ClNext]_vars

(***************************************************************************)
(* Claims about clean_and_preprocess_data and plot_all_charts, checked     *)
(* under SpecClean.                                                        *)
(***************************************************************************)
ClPrepared == cl_pc \notin {"idle", "prepare"}
ClSucceeded == cl_pc \in {"returned_true", "plotted"}

\* the row of original_data that row k of df_copy was made from (labels 0, 1, ...)
ClSource(k) == original_data.rows[df_copy.index[k] + 1]

ClFits(fmt) ==
    \A i \in DOMAIN original_data.rows :
        original_data.rows[i]["data_time"].kind \in {"null", "datetime", fmt}

ClWholeColumnFormat ==
    IF ClFits("hm") THEN "hm"
    ELSE IF ClFits("ymdhm") THEN "ymdhm"
    ELSE IF ClFits("ymdhms") THEN "ymdhms"
    ELSE "none"

ClReadAs(cell, fmt) ==
    IF cell.kind = "null" THEN NaT
    ELSE IF cell.kind = "hm" THEN Epoch1900 + cell.t
    ELSE cell.t

\* C11: with a time column, the whole column is read with the first of
\* hour:minute, date+hour:minute, full date-time under which every value
\* parses; only when none fits the whole column is it inferred, and then an
\* unparseable value is a missing instant, a clock-only value is not read with
\* the hour:minute format, and the step does not fail.
C11_WholeColumnFormat ==
    (ClPrepared /\ HasColumn(original_data, "data_time")) =>
        /\ df_copy # None
        /\ \A k \in DOMAIN df_copy.rows :
              LET cell == ClSource(k)["data_time"]
                  got == df_copy.rows[k]["datetime"]
              IN  IF ClWholeColumnFormat # "none"
                  THEN got = ClReadAs(cell, ClWholeColumnFormat)
                  ELSE /\ cell.kind \in {"text", "null"} => got = NaT
                       /\ cell.kind = "hm" => got # Epoch1900 + cell.t

\* a column of a clock-only value and unparseable text, inferred value by value
C11_Witness ==
    /\ ClSucceeded
    /\ HasColumn(original_data, "data_time")
    /\ ClWholeColumnFormat = "none"
    /\ \E k \in DOMAIN df_copy.rows : ClSource(k)["data_time"].kind = "text"
    /\ \E k \in DOMAIN df_copy.rows :
          /\ ClSource(k)["data_time"].kind = "hm"
          /\ df_copy.rows[k]["datetime"] = Today + ClSource(k)["data_time"].t

(***************************************************************************)
(* C13: the end-to-end scenario.                                           *)
(***************************************************************************)
ClKeysOf(t) == {<<t.rows[i]["location"], t.rows[i]["floor"]>> : i \in DOMAIN t.rows}
ClRowsOfKey(t, k) == {i \in DOMAIN t.rows : <<t.rows[i]["location"], t.rows[i]["floor"]>> = k}

ClNoFilter ==
    /\ config.start_date = NaT /\ config.end_date = NaT
    /\ config.selected_locations = {} /\ config.selected_floors = {}

\* C13: the merged scenario, cleaned without filters, has exactly 3 hourly
\* rows per key; room temperature is non-missing only in the rows of
\* ("L1", "1"), and flow, supply and return temperature only in the rows of
\* the default sentinel key (default location, floor '1').
C13_EndToEnd ==
    (ClSucceeded /\ ClNoFilter /\ original_data = ToChartInput(ScenarioMerged)) =>
        LET t == all_processed_data
        IN  /\ ClKeysOf(t) = {<<"L1", "1">>, <<"default_location", "1">>}
            /\ \A k \in ClKeysOf(t) : Cardinality(ClRowsOfKey(t, k)) = 3
            /\ \A i \in DOMAIN t.rows :
                  /\ ~t.rows[i]["room_temp"].nan =>
                        <<t.rows[i]["location"], t.rows[i]["floor"]>> = <<"L1", "1">>
                  /\ \A c \in {"inst_flow", "supply_temp", "return_temp"} :
                        ~t.rows[i][c].nan =>
                           <<t.rows[i]["location"], t.rows[i]["floor"]>> = <<"default_location", "1">>

\* what does hold of the scenario: 3 hourly rows per key, the category-B key
\* being ("None", "None")
C13_EndToEndNoneKey ==
    (ClSucceeded /\ ClNoFilter /\ original_data = ToChartInput(ScenarioMerged)) =>
        LET t == all_processed_data
        IN  /\ ClKeysOf(t) = {<<"L1", "1">>, <<"None", "None">>}
            /\ \A k \in ClKeysOf(t) : Cardinality(ClRowsOfKey(t, k)) = 3
            /\ \A i \in DOMAIN t.rows :
                  /\ ~t.rows[i]["room_temp"].nan <=>
                        <<t.rows[i]["location"], t.rows[i]["floor"]>> = <<"L1", "1">>
                  /\ \A c \in {"inst_flow", "supply_temp", "return_temp"} :
                        ~t.rows[i][c].nan <=>
                           <<t.rows[i]["location"], t.rows[i]["floor"]>> = <<"None", "None">>

(***************************************************************************)
(* C14: the selection does not reach all_processed_data.                   *)
(***************************************************************************)
\* the configuration with the same date range and nothing selected
ClUnselected ==
    [start_date |-> config.start_date, end_date |-> config.end_date,
     selected_locations |-> {}, selected_floors |-> {}]

\* the tables line 168 can produce from the input and the date range alone
ClWholeTables ==
    UNION {{ResampleTable(d, "all_processed") :
              d \in SortValues(DateFilter(Normalize(Copy(original_data, "df_copy"), mode),
                                          ClUnselected))} : mode \in InferenceModes}

ClUnselectedPaths(drawn) == SelectSeq(drawn, LAMBDA x : x.path \in {"flow", "supply", "return"})

\* C14: after a successful clean_and_preprocess_data, all_processed_data is a
\* table determined by the input table and the date range alone, and the
\* series of the flow chart and of the supply/return chart are those drawn
\* with nothing selected.
C14_SelectionIndependent ==
    /\ ClSucceeded => all_processed_data \in ClWholeTables
    /\ cl_pc = "plotted" =>
          ClUnselectedPaths(charts.drawn) =
             ClUnselectedPaths(PlotAllCharts(all_processed_data, ClUnselected, charts.smooth))

\* a successful run whose selection removed rows: processed_data differs
C14_Witness ==
    /\ cl_pc = "plotted"
    /\ config.selected_locations = {"L1"}
    /\ \E i \in DOMAIN df_copy.rows : df_copy.rows[i]["location"] # "L1"
    /\ processed_data.rows # all_processed_data.rows
    /\ \E j \in DOMAIN charts.drawn : charts.drawn[j].path = "flow"

(***************************************************************************)
(* C15: the input table is not modified.                                   *)
(***************************************************************************)
ClStoredAreNew ==
    ClSucceeded =>
        /\ all_processed_data.obj # original_data.obj
        /\ processed_data.obj # original_data.obj

ClInputKept == original_data' = original_data

ClResampleKeepsArgument ==
    (cl_pc \in {"resample_all", "resample_filtered"}) => (df_copy' = df_copy)

\* C15: no step of clean_and_preprocess_data or _resample_data changes
\* original_data (columns, rows, values, row order), whether the call succeeds
\* or fails, and the stored tables are not the input object; _resample_data
\* leaves the table it is given as it was.
C15_InputNotModified ==
    /\ [][ClInputKept /\ ClResampleKeepsArgument]_vars
    /\ []ClStoredAreNew

\* a successful call whose copy was filtered by date and reordered
C15_Witness ==
    /\ ClSucceeded
    /\ config.start_date # NaT
    /\ df_copy.index # original_data.index
    /\ df_copy.columns # original_data.columns

\* a failed call
C15_WitnessFailed == cl_pc = "returned_false" /\ original_data.rows # <<>>

(***************************************************************************)
(* C16: the location and floor keys.                                       *)
(***************************************************************************)
ClHas(col) == col \in Range(original_data.columns)
ClStr(cell) == IF "s" \in DOMAIN cell THEN cell.s ELSE "None"

ClClaimedLocation(row) ==
    IF ClHas("location") THEN ClStr(row["location"])
    ELSE IF ClHas("place") THEN ClStr(row["place"])
    ELSE IF ClHas("region") THEN ClStr(row["region"])
    ELSE IF ClHas("location_en") THEN ClStr(row["location_en"])
    ELSE IF ClHas("area_en") THEN ClStr(row["area_en"])
    ELSE "default_location"

ClClaimedFloor(row) ==
    IF ClHas("floor") THEN ClStr(row["floor"])
    ELSE IF ClHas("floor_en") THEN ClStr(row["floor_en"])
    ELSE IF ClHas("storey") THEN ClStr(row["storey"])
    ELSE "1"

\* C16: every row of the cleaned table has the location of the first column
\* that exists among 位置, 地点, 区域, location, area and the floor of the
\* first among 楼层, floor, 层, as strings, the sentinels '默认位置' and '1'
\* when there is no such column; the stored tables have only these keys.
C16_KeysFromFirstAlias ==
    /\ ClPrepared =>
          \A k \in DOMAIN df_copy.rows :
             /\ df_copy.rows[k]["location"] = ClClaimedLocation(ClSource(k))
             /\ df_copy.rows[k]["floor"] = ClClaimedFloor(ClSource(k))
    /\ ClSucceeded =>
          /\ ClKeysOf(all_processed_data) \subseteq ClKeysOf(df_copy)
          /\ ClKeysOf(processed_data) \subseteq ClKeysOf(df_copy)

\* a table with 地点 and area but no 位置, 层 and floor but no 楼层, and a null
\* in 地点
C16_Witness ==
    /\ ClSucceeded
    /\ ClHas("place") /\ ClHas("area_en") /\ ~ClHas("location")
    /\ ClHas("floor_en") /\ ClHas("storey") /\ ~ClHas("floor")
    /\ \E k \in DOMAIN df_copy.rows : df_copy.rows[k]["location"] = "None"
    /\ \E k \in DOMAIN df_copy.rows : df_copy.rows[k]["location"] = "L1"
    /\ \E k \in DOMAIN df_copy.rows : df_copy.rows[k]["floor"] = "2"

(***************************************************************************)
(* C18: when smoothing is invoked.                                         *)
(***************************************************************************)
\* C18: in every chart path smooth_data_with_confidence is invoked only when
\* smoothing is enabled and the series, without missing values, has at least
\* 3 points; a shorter series is drawn raw only, without error.
C18_SmoothedFromThreePoints ==
    cl_pc = "plotted" =>
        /\ charts.status = "ok"
        /\ \A j \in DOMAIN charts.drawn :
              LET x == charts.drawn[j]
              IN  /\ \A i \in DOMAIN x.raw.values : ~x.raw.values[i].nan
                  /\ x.smoothing # NotSmoothed =>
                        /\ charts.smooth
                        /\ Len(x.raw.values) >= 3
                        /\ x.smoothing.status = "ok"
                  /\ Len(x.raw.values) < 3 => x.smoothing = NotSmoothed

\* smoothing enabled: a room-temperature series of 3 points is smoothed, a
\* flow series of 2 points is drawn raw
C18_Witness ==
    /\ cl_pc = "plotted"
    /\ charts.smooth
    /\ \E j \in DOMAIN charts.drawn :
          /\ charts.drawn[j].path = "room_keyed"
          /\ Len(charts.drawn[j].raw.values) = 3
          /\ charts.drawn[j].smoothing # NotSmoothed
    /\ \E j \in DOMAIN charts.drawn :
          /\ charts.drawn[j].path = "flow"
          /\ Len(charts.drawn[j].raw.values) = 2
          /\ charts.drawn[j].smoothing = NotSmoothed

(***************************************************************************)
(* C19: the sort.                                                          *)
(***************************************************************************)
ClAscending(a, b) ==
    \/ df_copy.rows[b]["datetime"] = NaT
    \/ /\ df_copy.rows[a]["datetime"] # NaT
       /\ df_copy.rows[a]["datetime"] <= df_copy.rows[b]["datetime"]

\* C19 (the order only): the rows are ascending by instant, missing last
C19_Ascending ==
    ClPrepared =>
        \A a \in DOMAIN df_copy.rows : \A b \in DOMAIN df_copy.rows :
            a < b => ClAscending(a, b)

\* C19: the rows are ascending by instant and two rows with equal instants
\* keep their original relative order.
C19_StableSort ==
    ClPrepared =>
        \A a \in DOMAIN df_copy.rows : \A b \in DOMAIN df_copy.rows :
            a < b =>
               /\ ClAscending(a, b)
               /\ df_copy.rows[a]["datetime"] = df_copy.rows[b]["datetime"] =>
                     df_copy.index[a] < df_copy.index[b]


(***************************************************************************)
(* C21: the measurement columns after cleaning.                            *)
(***************************************************************************)
ClIsFloat(cell) == DOMAIN cell = {"nan", "n", "d"}

ClMeasured(t) == Range(numeric_columns) \cap Range(t.columns)

\* a table _resample_data cannot resample: it has a measurement column and no
\* valid instant at all, or a key none of whose rows has a valid instant
ClTimeless(t) ==
    /\ ClMeasured(t) # {}
    /\ \/ ValidTimes(t.rows) = {}
       \/ \E k \in ClKeysOf(t) :
             \A i \in ClRowsOfKey(t, k) : t.rows[i]["datetime"] = NaT

\* C21: after the cleaning every cell of the four measurement columns is a
\* float: the number the input held, or missing where the input held text or
\* nothing; the same holds of both resampled tables, and a call fails only
\* over the instants of its rows, never over a measurement value.
C21_MeasurementsNumeric ==
    /\ ClPrepared =>
          \A k \in DOMAIN df_copy.rows : \A c \in ClMeasured(original_data) :
             LET cell == ClSource(k)[c]
                 got == df_copy.rows[k][c]
             IN  /\ ClIsFloat(got)
                 /\ IF "v" \in DOMAIN cell THEN got = cell.v ELSE got = NaN
    /\ \A t \in {all_processed, filtered_processed, all_processed_data, processed_data} :
          t # None => \A i \in DOMAIN t.rows : \A c \in ClMeasured(t) : ClIsFloat(t.rows[i][c])
    /\ cl_pc = "returned_false" =>
          \/ ClTimeless(df_copy)
          \/ ClTimeless(SelectKeys(df_copy, config, "filtered_df"))

\* a successful call on a table with text in one measurement cell and a
\* number in another
C21_Witness ==
    /\ ClSucceeded
    /\ HasColumn(original_data, "room_temp")
    /\ \E k \in DOMAIN df_copy.rows :
          /\ ClSource(k)["room_temp"] = BadText
          /\ df_copy.rows[k]["room_temp"] = NaN
    /\ \E k \in DOMAIN df_copy.rows : df_copy.rows[k]["room_temp"] = Num(10)
    /\ \E i \in DOMAIN all_processed_data.rows : all_processed_data.rows[i]["room_temp"] = NaN

(***************************************************************************)
(* C22: the categories find_data_files assigns.                            *)
(***************************************************************************)
MgNameHas(name, a, b) == \E i \in 1..(Len(name) - 1) : name[i] = a /\ name[i + 1] = b

MgNameEnds(name, suffix) ==
    /\ Len(name) >= Len(suffix)
    /\ \A j \in DOMAIN suffix : name[Len(name) - Len(suffix) + j] = suffix[j]

\* a spreadsheet that is not a temporary file
MgAssignable(name) ==
    /\ MgNameEnds(name, <<".", "x", "l", "s", "x">>) \/ MgNameEnds(name, <<".", "x", "l", "s">>)
    /\ ~(Len(name) >= 2 /\ name[1] = "~" /\ name[2] = "$")

MgListed(files) == {files[k] : k \in DOMAIN files}

MgNoRepeat(files) == \A a \in DOMAIN files : \A b \in DOMAIN files : a # b => files[a] # files[b]

\* C22: a spreadsheet whose name holds the category-A keyword is of category
\* A, also when it holds the category-B keyword; otherwise one whose name
\* holds the category-B keyword is of category B; every other file, and every
\* file that is no .xlsx/.xls or starts with '~$', is in neither list; no file
\* is in both lists or twice in one.
C22_OneCategoryPerFile ==
    (mg_pc \notin {"idle", "find"}) =>
        /\ \A i \in DOMAIN data_dir :
              LET name == data_dir[i].name
                  A == MgNameHas(name, "D", "H")
                  B == MgNameHas(name, "E", "W")
              IN  /\ i \in MgListed(low_cycle_files) <=> (MgAssignable(name) /\ A)
                  /\ i \in MgListed(two_network_files) <=> (MgAssignable(name) /\ ~A /\ B)
        /\ MgListed(low_cycle_files) \cap MgListed(two_network_files) = {}
        /\ MgNoRepeat(low_cycle_files) /\ MgNoRepeat(two_network_files)
        /\ MgListed(low_cycle_files) \cup MgListed(two_network_files) \subseteq DOMAIN data_dir

\* a directory with a spreadsheet of both keywords (category A), a
\* spreadsheet of category B and a spreadsheet of neither keyword
C22_Witness ==
    /\ mg_pc \notin {"idle", "find"}
    /\ \E i \in MgListed(low_cycle_files) : MgNameHas(data_dir[i].name, "E", "W")
    /\ two_network_files # <<>>
    /\ \E i \in DOMAIN data_dir :
          /\ MgAssignable(data_dir[i].name)
          /\ i \notin MgListed(low_cycle_files) \cup MgListed(two_network_files)

\* a directory with a temporary file and a file that is no spreadsheet, both
\* named with a keyword
C22_WitnessIgnored ==
    /\ mg_pc \notin {"idle", "find"}
    /\ \E i \in DOMAIN data_dir : \E j \in DOMAIN data_dir :
          /\ data_dir[i].name[1] = "~" /\ MgNameHas(data_dir[i].name, "D", "H")
          /\ ~MgAssignable(data_dir[j].name) /\ data_dir[j].name[1] # "~"
          /\ {i, j} \cap (MgListed(low_cycle_files) \cup MgListed(two_network_files)) = {}

(***************************************************************************)
(* C28: the series of the flow chart and of the supply/return chart.       *)
(***************************************************************************)
\* the rows of the resampled table at the instant h with a value in column c
ClPresentAt(t, h, c) == {i \in DOMAIN t.rows : t.index[i] = h /\ ~t.rows[i][c].nan}

RECURSIVE ClSumCells(_, _, _)
ClSumCells(t, S, c) ==
    IF S = {} THEN Num(0)
    ELSE LET i == CHOOSE x \in S : TRUE
         IN  RAdd(t.rows[i][c], ClSumCells(t, S \ {i}, c))

ClDrawnOn(path) == {j \in DOMAIN charts.drawn : charts.drawn[j].path = path}

\* the series drawn on path is the mean over the keys of column c
ClMeanOfKeyMeans(path, c) ==
    LET t == all_processed_data
        instants == {h \in Range(t.index) : ClPresentAt(t, h, c) # {}}
    IN  /\ Cardinality(ClDrawnOn(path)) <= 1
        /\ instants = {} <=> ClDrawnOn(path) = {}
        /\ \A h \in Range(t.index) : \A k \in ClKeysOf(t) :
              Cardinality({i \in ClRowsOfKey(t, k) : t.index[i] = h}) = 1
        /\ \A j \in ClDrawnOn(path) :
              LET raw == charts.drawn[j].raw
              IN  /\ Range(raw.index) = instants
                  /\ \A a \in DOMAIN raw.index : \A b \in DOMAIN raw.index :
                        a < b => raw.index[a] < raw.index[b]
                  /\ \A a \in DOMAIN raw.index :
                        LET present == ClPresentAt(t, raw.index[a], c)
                        IN  raw.values[a] =
                               RDiv(ClSumCells(t, present, c), Num(Cardinality(present)))

\* C28: the flow series, the supply series and the return series each have
\* one value per instant of the timeline at which some key has an hourly
\* mean: the mean of the hourly means of the keys that have one; the other
\* instants are not in the series.
C28_MeanOfKeyMeans ==
    cl_pc = "plotted" =>
        /\ HasColumn(all_processed_data, "inst_flow") => ClMeanOfKeyMeans("flow", "inst_flow")
        /\ (HasColumn(all_processed_data, "supply_temp") /\ HasColumn(all_processed_data, "return_temp")) =>
              /\ ClMeanOfKeyMeans("supply", "supply_temp")
              /\ ClMeanOfKeyMeans("return", "return_temp")

\* readings 10 and 20 of one key and 30 of another in one hour are drawn as
\* (15 + 30) / 2, not as the pooled 20; the hours without a flow are not drawn
C28_Witness ==
    /\ cl_pc = "plotted"
    /\ original_data = Uneven
    /\ \E j \in ClDrawnOn("flow") :
          /\ charts.drawn[j].raw.index = <<DataEpoch + 8 * Hour>>
          /\ charts.drawn[j].raw.values = <<Frac(45, 2)>>
    /\ Cardinality(Range(all_processed_data.index)) = 3
    /\ \E j \in ClDrawnOn("return") : Len(charts.drawn[j].raw.values) = 2

(***************************************************************************)
(* C24: clean_and_preprocess_data is all-or-nothing.                       *)
(***************************************************************************)
\* the stored tables change only in the step that ends a call with True
ClStoredOnlyOnSuccess ==
    (all_processed_data' # all_processed_data \/ processed_data' # processed_data) =>
        (cl_pc = "store" /\ cl_pc' = "returned_true")

\* a table with a measurement column and no row cannot be resampled: the
\* call ends with False
ClEmptyFails ==
    /\ (cl_pc = "resample_all" /\ df_copy.rows = <<>> /\ ClMeasured(df_copy) # {}) =>
          cl_pc' = "returned_false"
    /\ (/\ cl_pc = "resample_filtered"
        /\ SelectKeys(df_copy, config, "filtered_df").rows = <<>>
        /\ ClMeasured(df_copy) # {}) =>
          cl_pc' = "returned_false"

ClReturnedTrueIsFresh ==
    cl_pc = "returned_true" =>
        /\ all_processed # None /\ filtered_processed # None
        /\ all_processed_data = all_processed
        /\ processed_data = filtered_processed

\* the steps of a call end in a return of True or False, never in an
\* exception that leaves the function
ClNothingPropagates ==
    cl_pc \in {"idle", "prepare", "resample_all", "resample_filtered", "store",
               "returned_true", "returned_false", "plotted"}

\* C24: a call in which a step raises, also the resampling of a table the
\* filters left without rows, returns False and leaves processed_data and
\* all_processed_data as they were before the call; a call that returns True
\* has replaced both by tables computed in that call.
C24_AllOrNothing ==
    /\ [][ClStoredOnlyOnSuccess /\ ClEmptyFails]_vars
    /\ [](ClReturnedTrueIsFresh /\ ClNothingPropagates)

\* a second call whose selection leaves no row returned False after a first
\* call had stored its tables
C24_Witness ==
    /\ cl_pc = "returned_false"
    /\ cl_calls = 2
    /\ config.selected_locations = {"L9"}
    /\ all_processed # None
    /\ all_processed_data # None /\ processed_data # None
    /\ all_processed_data.rows # <<>>

\* a second call that returned True and stored another selection
C24_WitnessReplaced ==
    /\ cl_pc = "returned_true"
    /\ cl_calls = 2
    /\ config.selected_locations = {"L1"}
    /\ processed_data.rows # all_processed_data.rows
(***************************************************************************)
(* main_app.py: the dashboard.  The session holds uploaded_files,          *)
(* current_page, merged_data, processing_status and last_error; each of    *)
(* the three buttons runs a handler, modelled step by step.  An exception  *)
(* of a step inside a try block goes to the handler's except block.        *)
(* Days are numbered from 2023-11-20 (day 0), as in DayNames.              *)
(***************************************************************************)
\* the choice '全部' of a selectbox
All == Str("all")

\* the pages, lines 351-358
Pages == {"merge", "analysis", "report"}

\* a category-A file with the first and the last minute of 2023-11-21 and a
\* row of another location without a time; a category-B file named for
\* 2023-11-22 with the first minute of that day
DsLow ==
    [name |-> <<"D", "H", "2", ".", "x", "l", "s", "x">>,
     columns |-> low_cycle_required,
     rows |-> [i \in 1..3 |-> [c \in Range(low_cycle_required) |->
                 IF c = "data_time"
                 THEN <<At(DayMinutes), At(2 * DayMinutes - 1), Cell("text")>>[i]
                 ELSE IF c = "location" THEN <<Str("L1"), Str("L1"), Str("L2")>>[i]
                 ELSE IF c = "floor" THEN <<IntCell("1"), IntCell("2"), IntCell("1")>>[i]
                 ELSE IF c = "room_temp" THEN Val(20 + i)
                 ELSE Held(3, i)]]]

DsTwo ==
    [name |-> <<"E", "W", "2", "0", "2", "3", "-", "1", "1", "-", "2", "2", ".", "x", "l", "s", "x">>,
     columns |-> two_network_required,
     rows |-> [i \in 1..2 |-> [c \in Range(two_network_required) |->
                 IF c = "data_time" THEN <<Clock(0), Clock(8 * Hour)>>[i]
                 ELSE IF c = "inst_flow" THEN Val(10 + i)
                 ELSE IF c = "supply_temp" THEN Val(60 + i)
                 ELSE IF c = "return_temp" THEN Val(40 + i)
                 ELSE Held(4, i)]]]

\* what the user may upload
DsUploads ==
    {[files |-> f] : f \in {<<ScenarioLow, ScenarioTwo>>, <<DsLow, DsTwo>>, <<ScenarioLow>>}}

\* the days the two date_input widgets offer; NaT stands for no choice
DsDates == {NaT} \cup {d - 1 : d \in DOMAIN DayNames}

\* merge_all_data on the listing dir, as one function (lines 143-177)
MergeAllData(dir) ==
    LET low == FindLowCycle(dir)
        two == FindTwoNetwork(dir)
        check == CategoryCheck(low, two)
        lows == [k \in DOMAIN low |-> ProcessLowCycleData(dir[low[k]])]
        twos == [k \in DOMAIN two |-> ProcessTwoNetworkData(dir[two[k]])]
        low_bad == {k \in DOMAIN lows : lows[k].status = "raised"}
        two_bad == {k \in DOMAIN twos : twos[k].status = "raised"}
    IN  IF check # "ok" THEN RaiseError(check, "", <<>>)
        ELSE IF low_bad # {} THEN lows[SetMin(low_bad)]
        ELSE IF two_bad # {} THEN twos[SetMin(two_bad)]
        ELSE Unified(Concat(<<Concat([k \in DOMAIN lows |-> lows[k].table]),
                              Concat([k \in DOMAIN twos |-> twos[k].table])>>))

\* HeatDataMerger.process_uploaded_files: the uploads are written to a
\* temporary directory, which os.listdir lists in any order
ProcessUploadedFiles(files) ==
    {MergeAllData([i \in DOMAIN files |-> files[p[i]]]) : p \in Perms(Len(files))}

\* (mutant) one chosen date is enough to filter
DateRangeFilter_EitherDate(t, start_date, end_date) ==
    LET keep == SelectSeq([i \in DOMAIN t.rows |-> i], LAMBDA i :
                    /\ t.rows[i]["data_time"] # NaT
                    /\ start_date # NaT => t.rows[i]["data_time"] >= start_date * DayMinutes
                    /\ end_date # NaT => t.rows[i]["data_time"] <= end_date * DayMinutes + (DayMinutes - 1))
    IN  IF start_date = NaT /\ end_date = NaT THEN t
        ELSE [columns |-> t.columns,
              index |-> [k \in DOMAIN keep |-> t.index[keep[k]]],
              rows |-> [k \in DOMAIN keep |-> t.rows[keep[k]]]]

\* lines 434-441: the rows from start_date 00:00:00 to end_date 23:59:59
DateRangeFilter(t, start_date, end_date) ==
    LET keep == SelectSeq([i \in DOMAIN t.rows |-> i], LAMBDA i :
                    /\ t.rows[i]["data_time"] # NaT
                    /\ t.rows[i]["data_time"] >= start_date * DayMinutes
                    /\ t.rows[i]["data_time"] <= end_date * DayMinutes + (DayMinutes - 1))
    IN  IF start_date = NaT \/ end_date = NaT THEN t
        ELSE [columns |-> t.columns,
              index |-> [k \in DOMAIN keep |-> t.index[keep[k]]],
              rows |-> [k \in DOMAIN keep |-> t.rows[keep[k]]]]

\* no handler has run: the widgets at their defaults, no locals
DsNoRun ==
    [handler |-> "none", start_date |-> NaT, end_date |-> NaT, merged_df |-> None,
     data_to_use |-> None, filtered_data |-> None,
     selected_location |-> All, selected_floor |-> All, smooth_data |-> FALSE,
     loaded |-> "not_called", cleaned |-> None, charts |-> None, shown |-> FALSE, raised |-> None]

\* lines 216-227
DsInit ==
    /\ uploaded_files = None
    /\ current_page = "merge"
    /\ merged_data = None
    /\ processing_status = "idle"
    /\ last_error = None
    /\ ds_run = DsNoRun
    /\ ds_pc = "idle"
    /\ RsIdle /\ SmIdle /\ MgIdle /\ ClIdle

DsOthers == <<rs_vars, sm_vars, mg_vars, cl_vars>>

\* lines 364-373: the uploader keeps the session's list when it is emptied
DsUpload ==
    /\ ds_pc = "idle"
    /\ \E files \in DsUploads \ {uploaded_files} : uploaded_files' = files
    /\ UNCHANGED <<current_page, merged_data, processing_status, last_error, ds_run, ds_pc>>
    /\ UNCHANGED DsOthers

\* lines 351-358
DsSwitchPage ==
    /\ ds_pc = "idle"
    /\ \E page \in Pages \ {current_page} : current_page' = page
    /\ UNCHANGED <<uploaded_files, merged_data, processing_status, last_error, ds_run, ds_pc>>
    /\ UNCHANGED DsOthers

\* (mutant) the merge button does not clear the last error
MergeStart_KeepsError ==
    /\ ds_pc = "idle"
    /\ current_page = "merge"
    /\ uploaded_files # None
    /\ processing_status # "processing"
    /\ processing_status' = "processing"
    /\ last_error' = last_error
    /\ \E start_date \in DsDates : \E end_date \in DsDates :
          ds_run' = [DsNoRun EXCEPT !.handler = "merge",
                                    !.start_date = start_date, !.end_date = end_date]
    /\ ds_pc' = "merge_files"
    /\ UNCHANGED <<uploaded_files, current_page, merged_data>>
    /\ UNCHANGED DsOthers

\* lines 407-410: the merge button; the two date widgets hold any choice
MergeStart ==
    /\ ds_pc = "idle"
    /\ current_page = "merge"
    /\ uploaded_files # None
    /\ processing_status # "processing"
    /\ processing_status' = "processing"
    /\ last_error' = None
    /\ \E start_date \in DsDates : \E end_date \in DsDates :
          ds_run' = [DsNoRun EXCEPT !.handler = "merge",
                                    !.start_date = start_date, !.end_date = end_date]
    /\ ds_pc' = "merge_files"
    /\ UNCHANGED <<uploaded_files, current_page, merged_data>>
    /\ UNCHANGED DsOthers

\* line 431
MergeFiles ==
    /\ ds_pc = "merge_files"
    /\ \E got \in ProcessUploadedFiles(uploaded_files.files) :
          IF got.status = "raised"
          THEN /\ ds_run' = [ds_run EXCEPT !.raised = got]
               /\ ds_pc' = "except"
          ELSE /\ ds_run' = [ds_run EXCEPT !.merged_df = got.table]
               /\ ds_pc' = "merge_filter"
    /\ UNCHANGED <<uploaded_files, current_page, merged_data, processing_status, last_error>>
    /\ UNCHANGED DsOthers

\* lines 434-441
MergeFilter ==
    /\ ds_pc = "merge_filter"
    /\ ds_run' = [ds_run EXCEPT !.merged_df = DateRangeFilter(@, ds_run.start_date, ds_run.end_date)]
    /\ ds_pc' = "merge_save"
    /\ UNCHANGED <<uploaded_files, current_page, merged_data, processing_status, last_error>>
    /\ UNCHANGED DsOthers

\* line 445
MergeSave ==
    /\ ds_pc = "merge_save"
    /\ merged_data' = ds_run.merged_df
    /\ ds_pc' = "merge_show"
    /\ UNCHANGED <<uploaded_files, current_page, processing_status, last_error, ds_run>>
    /\ UNCHANGED DsOthers

\* lines 448-487: the preview and the two downloads are built, which may
\* raise; then the status is set
MergeShow ==
    /\ ds_pc = "merge_show"
    /\ \/ /\ ds_run' = [ds_run EXCEPT !.shown = TRUE]
          /\ processing_status' = "completed"
          /\ ds_pc' = "idle"
       \/ /\ ds_run' = [ds_run EXCEPT !.raised = RaiseError("display", "", <<>>)]
          /\ processing_status' = processing_status
          /\ ds_pc' = "except"
    /\ UNCHANGED <<uploaded_files, current_page, merged_data, last_error>>
    /\ UNCHANGED DsOthers

\* the except block of the running handler (lines 490-501, 709-720,
\* 838-849) and its finally block, which touches no session key
HandlerExcept ==
    /\ ds_pc = "except"
    /\ processing_status' = "error"
    /\ last_error' = [handler |-> ds_run.handler, error |-> ds_run.raised]
    /\ ds_pc' = "idle"
    /\ UNCHANGED <<uploaded_files, current_page, merged_data, ds_run>>
    /\ UNCHANGED DsOthers

\* DataProcessingConfig(): no date range and no selection
DefaultConfig ==
    [start_date |-> NaT, end_date |-> NaT, selected_locations |-> {}, selected_floors |-> {}]

\* ChartGenerator.load_data
LoadData(data) == data # None /\ data.rows # <<>>

\* clean_and_preprocess_data as one function: what a call on a generator
\* holding data can return and store
CleanAndPreprocessData(data, cfg) ==
    UNION {{LET all == ResampleTable(sorted, "all_processed")
                filtered == ResampleTable(SelectKeys(Copy(sorted, "filtered_df"), cfg, "filtered_df"),
                                          "filtered_processed")
            IN  IF IsRaised(all) \/ IsRaised(filtered)
                THEN [ok |-> FALSE, all_processed_data |-> None, processed_data |-> None]
                ELSE [ok |-> TRUE, all_processed_data |-> all, processed_data |-> filtered] :
               sorted \in SortValues(DateFilter(Normalize(Copy(data, "df_copy"), mode), cfg))} :
           mode \in InferenceModes}

\* lines 555-564: the table the analysis page works on, when it can be had
AnalysisData ==
    IF merged_data # None THEN {merged_data}
    ELSE IF uploaded_files = None THEN {}
    ELSE {got.table : got \in {g \in ProcessUploadedFiles(uploaded_files.files) : g.status = "ok"}}

\* lines 570-581: the choices of a selectbox over column col
SelectOptions(t, col) == {All} \cup ({t.rows[i][col] : i \in DOMAIN t.rows} \ {None})

\* (mutant) the selection of the page is not applied to the table
SelectRows_Everything(t, location, floor) == t

\* lines 606-612
SelectRows(t, location, floor) ==
    LET keep == SelectSeq([i \in DOMAIN t.rows |-> i], LAMBDA i :
                    /\ location # All => t.rows[i]["location"] = location
                    /\ floor # All => t.rows[i]["floor"] = floor)
    IN  [columns |-> t.columns,
         index |-> [k \in DOMAIN keep |-> t.index[keep[k]]],
         rows |-> [k \in DOMAIN keep |-> t.rows[keep[k]]]]

\* lines 637-640: the chart button, with the page's table and choices
ChartStart ==
    /\ ds_pc = "idle"
    /\ current_page = "analysis"
    /\ processing_status # "processing"
    /\ \E data_to_use \in AnalysisData :
       \E location \in SelectOptions(data_to_use, "location") :
       \E floor \in SelectOptions(data_to_use, "floor") :
       \E smooth_data \in BOOLEAN :
          LET filtered_data == SelectRows(data_to_use, location, floor)
          IN  /\ filtered_data.rows # <<>>
              /\ ds_run' = [DsNoRun EXCEPT !.handler = "chart",
                                           !.data_to_use = data_to_use,
                                           !.filtered_data = filtered_data,
                                           !.selected_location = location,
                                           !.selected_floor = floor,
                                           !.smooth_data = smooth_data]
    /\ processing_status' = "processing"
    /\ last_error' = None
    /\ ds_pc' = "chart_clean"
    /\ UNCHANGED <<uploaded_files, current_page, merged_data>>
    /\ UNCHANGED DsOthers

\* (mutant) the else branch shows its message and sets no status
LoadAndClean_NoStatus(data, then) ==
    /\ IF ~LoadData(data)
       THEN /\ ds_run' = [ds_run EXCEPT !.loaded = "False"]
            /\ processing_status' = processing_status
            /\ ds_pc' = "idle"
       ELSE \E got \in CleanAndPreprocessData(ToChartInput(data), DefaultConfig) :
               /\ ds_run' = [ds_run EXCEPT !.loaded = "True", !.cleaned = got]
               /\ processing_status' = processing_status
               /\ ds_pc' = IF got.ok THEN then ELSE "idle"
    /\ UNCHANGED <<uploaded_files, current_page, merged_data, last_error>>
    /\ UNCHANGED DsOthers

\* (mutant) the charts are drawn whatever the preparation returned
LoadAndClean_DrawsAnyway(data, then) ==
    /\ IF ~LoadData(data)
       THEN /\ ds_run' = [ds_run EXCEPT !.loaded = "False"]
            /\ processing_status' = "error"
            /\ ds_pc' = "idle"
       ELSE \E got \in CleanAndPreprocessData(ToChartInput(data), DefaultConfig) :
               /\ ds_run' = [ds_run EXCEPT !.loaded = "True", !.cleaned = got]
               /\ processing_status' = processing_status
               /\ ds_pc' = then
    /\ UNCHANGED <<uploaded_files, current_page, merged_data, last_error>>
    /\ UNCHANGED DsOthers

\* ChartGenerator(data), then "if load_data() and clean_and_preprocess_data()"
\* and its else branch (lines 661-666 and 705-708, 777-782 and 834-836)
LoadAndClean(data, then) ==
    /\ IF ~LoadData(data)
       THEN /\ ds_run' = [ds_run EXCEPT !.loaded = "False"]
            /\ processing_status' = "error"
            /\ ds_pc' = "idle"
       ELSE \E got \in CleanAndPreprocessData(ToChartInput(data), DefaultConfig) :
               /\ ds_run' = [ds_run EXCEPT !.loaded = "True", !.cleaned = got]
               /\ processing_status' = IF got.ok THEN processing_status ELSE "error"
               /\ ds_pc' = IF got.ok THEN then ELSE "idle"
    /\ UNCHANGED <<uploaded_files, current_page, merged_data, last_error>>
    /\ UNCHANGED DsOthers

\* lines 661-666, 705-708
ChartLoadClean ==
    /\ ds_pc = "chart_clean"
    /\ LoadAndClean(ds_run.filtered_data, "chart_plot")

\* plot_all_charts(smooth) on the generator that was prepared
PlotCharts(smooth, then) ==
    /\ ds_run' = [ds_run EXCEPT !.charts =
                     [smooth |-> smooth,
                      drawn |-> PlotAllCharts(ds_run.cleaned.all_processed_data, DefaultConfig, smooth)]]
    /\ ds_pc' = then
    /\ UNCHANGED <<uploaded_files, current_page, merged_data, processing_status, last_error>>
    /\ UNCHANGED DsOthers

\* line 670
ChartPlot ==
    /\ ds_pc = "chart_plot"
    /\ PlotCharts(ds_run.smooth_data, "chart_show")

\* the charts, the statistics or the downloads are put on the page, which
\* may raise; then the status is set
ShowResults ==
    /\ \/ /\ ds_run' = [ds_run EXCEPT !.shown = TRUE]
          /\ processing_status' = "completed"
          /\ ds_pc' = "idle"
       \/ /\ ds_run' = [ds_run EXCEPT !.raised = RaiseError("display", "", <<>>)]
          /\ processing_status' = processing_status
          /\ ds_pc' = "except"
    /\ UNCHANGED <<uploaded_files, current_page, merged_data, last_error>>
    /\ UNCHANGED DsOthers

\* lines 673-703
ChartShow ==
    /\ ds_pc = "chart_show"
    /\ ShowResults

\* lines 737-740: the report button
ReportStart ==
    /\ ds_pc = "idle"
    /\ current_page = "report"
    /\ merged_data # None \/ uploaded_files # None
    /\ processing_status # "processing"
    /\ processing_status' = "processing"
    /\ last_error' = None
    /\ ds_run' = [DsNoRun EXCEPT !.handler = "report", !.smooth_data = TRUE]
    /\ ds_pc' = "report_data"
    /\ UNCHANGED <<uploaded_files, current_page, merged_data>>
    /\ UNCHANGED DsOthers

\* (mutant) the table merged for the report is kept in the session
ReportData_Stores ==
    /\ ds_pc = "report_data"
    /\ IF merged_data # None
       THEN /\ ds_run' = [ds_run EXCEPT !.data_to_use = merged_data]
            /\ ds_pc' = "report_clean"
            /\ UNCHANGED merged_data
       ELSE \E got \in ProcessUploadedFiles(uploaded_files.files) :
               IF got.status = "raised"
               THEN /\ ds_run' = [ds_run EXCEPT !.raised = got]
                    /\ ds_pc' = "except"
                    /\ UNCHANGED merged_data
               ELSE /\ ds_run' = [ds_run EXCEPT !.data_to_use = got.table]
                    /\ ds_pc' = "report_clean"
                    /\ merged_data' = got.table
    /\ UNCHANGED <<uploaded_files, current_page, processing_status, last_error>>
    /\ UNCHANGED DsOthers

\* lines 757-771: the session's table, or the uploads merged again
ReportData ==
    /\ ds_pc = "report_data"
    /\ IF merged_data # None
       THEN /\ ds_run' = [ds_run EXCEPT !.data_to_use = merged_data]
            /\ ds_pc' = "report_clean"
       ELSE \E got \in ProcessUploadedFiles(uploaded_files.files) :
               IF got.status = "raised"
               THEN /\ ds_run' = [ds_run EXCEPT !.raised = got]
                    /\ ds_pc' = "except"
               ELSE /\ ds_run' = [ds_run EXCEPT !.data_to_use = got.table]
                    /\ ds_pc' = "report_clean"
    /\ UNCHANGED <<uploaded_files, current_page, merged_data, processing_status, last_error>>
    /\ UNCHANGED DsOthers

\* lines 777-782, 834-836
ReportLoadClean ==
    /\ ds_pc = "report_clean"
    /\ LoadAndClean(ds_run.data_to_use, "report_plot")

\* line 786
ReportPlot ==
    /\ ds_pc = "report_plot"
    /\ PlotCharts(TRUE, "report_show")

\* lines 789-832
ReportShow ==
    /\ ds_pc = "report_show"
    /\ ShowResults

DsNext ==
    \/ DsUpload
    \/ DsSwitchPage
    \/ MergeStart
    \/ MergeFiles
    \/ MergeFilter
    \/ MergeSave
    \/ MergeShow
    \/ ChartStart
    \/ ChartLoadClean
    \/ ChartPlot
    \/ ChartShow
    \/ ReportStart
    \/ ReportData
    \/ ReportLoadClean
    \/ ReportPlot
    \/ ReportShow
    \/ HandlerExcept

SpecDash == DsInit /\ [][DsNext]_vars

(***************************************************************************)
(* Claims about the dashboard, checked under SpecDash.                     *)
(***************************************************************************)
\* the tables a merge of the session's uploads can give
DsMergedTables ==
    {got.table : got \in {g \in ProcessUploadedFiles(uploaded_files.files) : g.status = "ok"}}

\* the instant t is on or after 00:00 of day a and before 00:00 of the day after day b
DsWithinDays(t, a, b) == t # NaT /\ a * DayMinutes <= t /\ t < (b + 1) * DayMinutes

DsBothDates == ds_run.start_date # NaT /\ ds_run.end_date # NaT

\* C30: the table the merge handler has just stored is, when both dates are
\* chosen, the merged rows with an instant from 00:00:00 of the start day to
\* 23:59:59 of the end day, in their order; with one date or none it is the
\* whole merged table, the rows without an instant included.
C30_DateRangeOnlyWithBothDates ==
    ds_pc = "merge_show" =>
        \E full \in DsMergedTables :
            /\ merged_data.columns = full.columns
            /\ merged_data.rows =
                  IF DsBothDates
                  THEN SelectSeq(full.rows, LAMBDA r :
                          DsWithinDays(r["data_time"], ds_run.start_date, ds_run.end_date))
                  ELSE full.rows

\* 2023-11-21 to 2023-11-21 chosen: the rows of 00:00 and 23:59 of that day
\* are stored, the row of 00:00 of the next day and the row without an
\* instant are not
C30_Witness ==
    /\ ds_pc = "merge_show"
    /\ uploaded_files.files = <<DsLow, DsTwo>>
    /\ ds_run.start_date = 1 /\ ds_run.end_date = 1
    /\ [i \in DOMAIN merged_data.rows |-> merged_data.rows[i]["data_time"]]
          = <<DayMinutes, 2 * DayMinutes - 1>>

\* only a start date chosen: all five rows are stored
C30_WitnessOneDate ==
    /\ ds_pc = "merge_show"
    /\ uploaded_files.files = <<DsLow, DsTwo>>
    /\ ds_run.start_date = 2 /\ ds_run.end_date = NaT
    /\ Len(merged_data.rows) = Len(DsLow.rows) + Len(DsTwo.rows)
    /\ \E i \in DOMAIN merged_data.rows : merged_data.rows[i]["data_time"] = NaT

\* a step that changes merged_data is line 445 of a merge handler run in
\* which nothing was raised, and stores the table that run merged
DsOnlyMergeSaves ==
    merged_data' # merged_data =>
        /\ ds_run.handler = "merge" /\ ds_pc = "merge_save"
        /\ ds_run.raised = None
        /\ merged_data' = ds_run.merged_df

\* no step of a chart or report run, and no except block, changes merged_data
DsOthersKeepTable ==
    (ds_run.handler \in {"chart", "report"} \/ ds_pc = "except") => merged_data' = merged_data

\* the table about to be stored is the merge of the uploads, filtered by date
DsSavedIsMerged ==
    ds_pc = "merge_save" =>
        \E full \in DsMergedTables :
            ds_run.merged_df = DateRangeFilter(full, ds_run.start_date, ds_run.end_date)

\* C26: merged_data is written only by a merge handler run whose merge and
\* date filter ended without error; a failed merge, a chart generation and a
\* report generation, their own merge of the uploads included, leave it as
\* it was.
C26_OnlyCompletedMergeWrites ==
    [][DsOnlyMergeSaves /\ DsOthersKeepTable]_vars /\ []DsSavedIsMerged

\* a table was stored, then other files were uploaded and their merge failed:
\* the table is still there
C26_Witness ==
    /\ ds_pc = "idle"
    /\ ds_run.handler = "merge"
    /\ processing_status = "error"
    /\ last_error # None
    /\ ds_run.raised = RaiseError("no_two_network_files", "", <<>>)
    /\ merged_data # None

\* a report was generated from the uploads merged by the report handler
\* itself: the session still holds no table
C26_WitnessFallback ==
    /\ ds_pc = "idle"
    /\ ds_run.handler = "report"
    /\ processing_status = "completed"
    /\ ds_run.data_to_use # None
    /\ merged_data = None

\* the table the generator of the last run was built on
DsGeneratorData ==
    IF ds_run.handler = "chart" THEN ds_run.filtered_data ELSE ds_run.data_to_use

\* charts exist only when load_data and clean_and_preprocess_data returned
\* True, and they are drawn from what that call stored on that generator
DsPlotAfterPrepare ==
    ds_run.charts # None =>
        /\ ds_run.loaded = "True"
        /\ ds_run.cleaned # None
        /\ ds_run.cleaned.ok
        /\ ds_run.cleaned \in CleanAndPreprocessData(ToChartInput(DsGeneratorData), DefaultConfig)
        /\ ds_run.charts.drawn =
              PlotAllCharts(ds_run.cleaned.all_processed_data, DefaultConfig, ds_run.charts.smooth)

DsPrepareFailed ==
    \/ ds_run.loaded = "False"
    \/ ds_run.cleaned # None /\ ~ds_run.cleaned.ok

\* a False of either call ends the run: no chart, nothing shown, status 'error'
DsFailedPrepareEnds ==
    DsPrepareFailed =>
        /\ ds_run.charts = None
        /\ ~ds_run.shown
        /\ processing_status = "error"
        /\ ds_pc = "idle"

\* C27: on the analysis and report pages plot_all_charts runs only after
\* load_data and clean_and_preprocess_data both returned True on the same
\* generator in the same run; when either returns False no chart is produced
\* or shown and processing_status becomes 'error'.
C27_PlotOnlyAfterPrepare == DsPlotAfterPrepare /\ DsFailedPrepareEnds

\* the analysis page, location L2 chosen, whose only row has no instant:
\* clean_and_preprocess_data returned False
C27_Witness ==
    /\ ds_run.handler = "chart"
    /\ ds_run.selected_location = Str("L2")
    /\ ds_run.loaded = "True"
    /\ ds_run.cleaned # None /\ ~ds_run.cleaned.ok
    /\ processing_status = "error"

\* the report page on a stored table without rows: load_data returned False
C27_WitnessNotLoaded ==
    /\ ds_run.handler = "report"
    /\ ds_run.data_to_use # None /\ ds_run.data_to_use.rows = <<>>
    /\ ds_run.loaded = "False"
    /\ processing_status = "error"

\* both calls returned True and the charts were drawn and shown
C27_WitnessPlotted ==
    /\ ds_run.handler \in {"chart", "report"}
    /\ ds_run.charts # None /\ ds_run.charts.drawn # <<>>
    /\ ds_run.shown
    /\ processing_status = "completed"

\* the first step of a handler sets 'processing'
DsStartSetsProcessing ==
    (ds_pc = "idle" /\ ds_pc' # "idle") =>
        /\ ds_run'.handler \in {"merge", "chart", "report"}
        /\ processing_status' = "processing"

\* the last step of a handler leaves 'completed' or 'error'
DsEndSetsOutcome ==
    (ds_pc # "idle" /\ ds_pc' = "idle") => processing_status' \in {"completed", "error"}

\* between handlers the status is not 'processing': the buttons are enabled
DsButtonsEnabled == ds_pc = "idle" => processing_status \in {"idle", "completed", "error"}

\* the status is 'processing' exactly while a handler runs
DsProcessingWhileRunning == processing_status = "processing" <=> ds_pc # "idle"

\* C25: each of the three handlers sets processing_status to 'processing'
\* when it starts and leaves it 'completed' or 'error' when it ends, on the
\* success path, when the preparation returns False and on any exception;
\* the status never stays 'processing', so the buttons are not disabled for
\* good.
C25_StatusNeverStuck ==
    /\ [][DsStartSetsProcessing /\ DsEndSetsOutcome]_vars
    /\ [](DsButtonsEnabled /\ DsProcessingWhileRunning)

\* the report handler ended in its except block: merging the uploads raised
C25_Witness ==
    /\ ds_pc = "idle"
    /\ ds_run.handler = "report"
    /\ ds_run.raised = RaiseError("no_two_network_files", "", <<>>)
    /\ processing_status = "error"

\* the chart handler ended in its else branch, and the merge handler ended
\* with everything shown
C25_WitnessElse ==
    /\ ds_pc = "idle"
    /\ ds_run.handler = "chart"
    /\ DsPrepareFailed
    /\ ds_run.raised = None
    /\ processing_status = "error"

C25_WitnessCompleted ==
    /\ ds_pc = "idle"
    /\ ds_run.handler = "merge"
    /\ ds_run.shown
    /\ processing_status = "completed"

\* an error message is recorded only with the status 'error'
DsErrorOnlyWithStatus == last_error # None => processing_status = "error"

\* a step that records an error message also sets the status 'error'; a step
\* that starts a handler clears the message
DsErrorSetWithStatus ==
    /\ (last_error' # last_error /\ last_error' # None) => processing_status' = "error"
    /\ (ds_pc = "idle" /\ ds_pc' # "idle") => last_error' = None

C29_WitnessCleared ==
    /\ ds_pc = "merge_files"
    /\ ds_run.handler = "merge"
    /\ processing_status = "processing"
    /\ last_error = None
    /\ merged_data # None

\* the charts plot_all_charts(smooth) draws from the whole table of the
\* analysis page, nothing selected
DsFullCharts ==
    {PlotAllCharts(got.all_processed_data, DefaultConfig, ds_run.smooth_data) :
        got \in {c \in CleanAndPreprocessData(ToChartInput(ds_run.data_to_use), DefaultConfig) : c.ok}}

DsChoiceMade == ds_run.selected_location # All \/ ds_run.selected_floor # All

\* C23: on the analysis page the flow chart and the supply/return chart are
\* drawn from the whole merged table whatever location or floor is chosen:
\* their series are those drawn with '全部' chosen for both.
C23_ChoiceChangesRoomChartOnly ==
    (ds_run.handler = "chart" /\ ds_run.charts # None) =>
        \E full \in DsFullCharts :
            ClUnselectedPaths(ds_run.charts.drawn) = ClUnselectedPaths(full)

\* location L1 chosen on the table of the two scenario files: the flow and
\* supply/return charts are empty, with '全部' they have three points each
C23_Diverges ==
    /\ ds_run.handler = "chart" /\ ds_run.charts # None
    /\ ds_run.data_to_use = ScenarioMerged
    /\ ds_run.selected_location = Str("L1")
    /\ ClUnselectedPaths(ds_run.charts.drawn) = <<>>
    /\ \A full \in DsFullCharts : Len(ClUnselectedPaths(full)) = 3

====
